---- MODULE Spec2Model ----
(***************************************************************************)
(* Model of src/entities/functions.rs of yb_stats: the collector           *)
(* (AllEntities::read_entities), the diff engine (EntitiesDiff::           *)
(* snapshot_diff, first_snapshot, second_snapshot) and the diff view       *)
(* (EntitiesDiff::print).                                                  *)
(*                                                                         *)
(* Option<T> is a sequence of length 0 (None) or 1 (Some).  A BTreeMap is  *)
(* a function whose DOMAIN is the key set; its iteration order is the      *)
(* ascending key order, given here by the sorted universes of identifiers. *)
(***************************************************************************)
EXTENDS Integers, Sequences, FiniteSets, TLC

VARIABLES
    observed,        \* what the two reads return: observed[n] = [entities, leader]
    entitiesdiff,    \* the EntitiesDiff value: four maps and master_found
    errors,          \* the error! lines logged so far
    output,          \* the lines print has written to stdout
    pc,              \* position of the diff program
    via,             \* which entry point populated the engine
    responses,       \* collector: body returned by http_get per (host, port)
    task,            \* collector: state of the spawned task per (host, port)
    now,             \* collector: the clock Local::now() reads
    started,         \* collector: detail_snapshot_time of each running task
    channel,         \* collector: the mpsc channel between tx and rx
    allentities,     \* collector: the AllEntities being built and returned
    parallel,        \* collector: num_threads of the rayon pool
    cpc              \* collector: position of read_entities

vars == <<observed, entitiesdiff, errors, output, pc, via,
          responses, task, now, started, channel, allentities, parallel, cpc>>

diffvars == <<observed, entitiesdiff, errors, output, pc, via>>
collvars == <<responses, task, now, started, channel, allentities, parallel, cpc>>

(***************************************************************************)
(* Bounds of the model.                                                    *)
(***************************************************************************)
\* rows (keyspaces + tables + tablets + replicas) in one per-node snapshot
MaxRows == 4
\* number of hosts the collector is pointed at
MaxHosts == 3
\* largest pool size the collector is run with
MaxParallel == 2

(***************************************************************************)
(* Identifiers and attribute values the observations are drawn from.       *)
(***************************************************************************)
K1 == "0000400f000030008000000000000000"
K2 == "a1da3fb4b3be4bd4860253e723d11b97"
T1 == "0000400f000030008000000000004000"
TB1 == "235b5b031f094ec3bf6be2a023abebba"
S1 == "5b6fd994d7e34504ac48a5e653456704"
Node1 == "yb-1.local:7000"
Node2 == "yb-2.local:7000"
\* the ycql system keyspace, one of the five ids of is_system_keyspace
Ksys == "00000000000000000000000000000001"
\* a ysql catalog table (object number 0xa30) and a 32-character id that is
\* not hexadecimal
Tcat == "0000400f000030008000000000000a30"
Tbad == "0000400f00003000800000000000zzzz"
TB2 == "f0e1d2c3b4a5968778695a4b3c2d1e0f"
S2 == "c8d2b9ae13a94dd2a8d1a4f0e06b1c55"

\* every identifier of a kind, in ascending (BTreeMap) order
SortedKeyspaceIds == <<Ksys, K1, K2>>
SortedTableIds == <<Tcat, T1, Tbad>>
SortedTabletIds == <<TB1, TB2>>
SortedReplicaKeys == << <<TB1, S1>>, <<TB1, S2>>, <<TB2, S1>>, <<TB2, S2>> >>

None == <<>>
Some(x) == <<x>>
\* Option<String>::unwrap_or(""), Option<Vec>::unwrap_or_default()
unwrap_or(opt, default) == IF opt = None THEN default ELSE opt[1]

KeyspaceRow(id, name, type) ==
    [keyspace_id |-> id, keyspace_name |-> name, keyspace_type |-> type]
TableRow(id, ks, name, state) ==
    [table_id |-> id, keyspace_id |-> ks, table_name |-> name, state |-> state]
TabletRow(id, table, state, leader, replicas) ==
    [tablet_id |-> id, table_id |-> table, state |-> state,
     leader |-> leader, replicas |-> replicas]
ReplicaRow(type, uuid, addr) ==
    [replica_type |-> type, server_uuid |-> uuid, addr |-> addr]

\* matches!(keyspace, "..01" | "..02" | "..03" | template1 | template0)
is_system_keyspace(keyspace) ==
    keyspace \in {"00000000000000000000000000000001",
                  "00000000000000000000000000000002",
                  "00000000000000000000000000000003",
                  "00000001000030008000000000000000",
                  "000033e5000030008000000000000000"}

\* Entities::new(): Default::default()
EntitiesNew ==
    [hostname_port |-> None, timestamp |-> None,
     keyspaces |-> <<>>, tables |-> <<>>, tablets |-> <<>>]

(***************************************************************************)
(* The change records and the engine.                                      *)
(***************************************************************************)
KeyspaceDiffDefault ==
    [first_keyspace_name |-> "", first_keyspace_type |-> "",
     second_keyspace_name |-> "", second_keyspace_type |-> ""]
TablesDiffDefault ==
    [first_keyspace_id |-> "", first_table_name |-> "", first_state |-> "",
     second_keyspace_id |-> "", second_table_name |-> "", second_state |-> ""]
TabletsDiffDefault ==
    [first_table_id |-> "", first_state |-> "", first_leader |-> "",
     second_table_id |-> "", second_state |-> "", second_leader |-> ""]
ReplicasDiffDefault ==
    [first_addr |-> "", first_replica_type |-> "",
     second_addr |-> "", second_replica_type |-> ""]

EmptyMap == [k \in {} |-> TRUE]

\* EntitiesDiff::new(), with the log the merge passes write to
EntitiesDiffNew ==
    [btreekeyspacediff |-> EmptyMap, btreetablesdiff |-> EmptyMap,
     btreetabletsdiff |-> EmptyMap, btreereplicasdiff |-> EmptyMap,
     master_found |-> FALSE, errors |-> <<>>]

\* BTreeMap::insert of a key that is absent
Insert(map, k, v) == [x \in DOMAIN map \cup {k} |-> IF x = k THEN v ELSE map[x]]

(***************************************************************************)
(* first_snapshot: entry().and_modify(error!).or_insert(first side).       *)
(***************************************************************************)
\* mutant of first_keyspace: and_modify sets the first side of a record
\* that exists
first_keyspace_and_modify(self, keyspace) ==
    LET old == IF keyspace.keyspace_id \in DOMAIN self.btreekeyspacediff
               THEN self.btreekeyspacediff[keyspace.keyspace_id]
               ELSE KeyspaceDiffDefault
    IN [self EXCEPT !.btreekeyspacediff =
          Insert(@, keyspace.keyspace_id,
                 [old EXCEPT !.first_keyspace_name = keyspace.keyspace_name,
                             !.first_keyspace_type = keyspace.keyspace_type])]

first_keyspace(self, keyspace) ==
    IF keyspace.keyspace_id \in DOMAIN self.btreekeyspacediff
    THEN [self EXCEPT !.errors =
            Append(@, <<"Duplicate keyspace_id entry", keyspace.keyspace_id>>)]
    ELSE [self EXCEPT !.btreekeyspacediff =
            Insert(@, keyspace.keyspace_id,
                   [KeyspaceDiffDefault EXCEPT
                      !.first_keyspace_name = keyspace.keyspace_name,
                      !.first_keyspace_type = keyspace.keyspace_type])]

first_table(self, table) ==
    IF table.table_id \in DOMAIN self.btreetablesdiff
    THEN [self EXCEPT !.errors =
            Append(@, <<"Duplicate table_id entry", table.table_id>>)]
    ELSE [self EXCEPT !.btreetablesdiff =
            Insert(@, table.table_id,
                   [TablesDiffDefault EXCEPT
                      !.first_keyspace_id = table.keyspace_id,
                      !.first_table_name = table.table_name,
                      !.first_state = table.state])]

first_replica(self, tablet, replica) ==
    LET key == <<tablet.tablet_id, replica.server_uuid>> IN
    IF key \in DOMAIN self.btreereplicasdiff
    THEN [self EXCEPT !.errors =
            Append(@, <<"Duplicate replica entry", tablet.tablet_id>>)]
    ELSE [self EXCEPT !.btreereplicasdiff =
            Insert(@, key,
                   [ReplicasDiffDefault EXCEPT
                      !.first_addr = replica.addr,
                      !.first_replica_type = replica.replica_type])]

RECURSIVE first_replicas(_, _, _)
first_replicas(self, tablet, replicas) ==
    IF replicas = <<>> THEN self
    ELSE first_replicas(first_replica(self, tablet, Head(replicas)),
                        tablet, Tail(replicas))

first_tablet(self, tablet) ==
    LET merged ==
          IF tablet.tablet_id \in DOMAIN self.btreetabletsdiff
          THEN [self EXCEPT !.errors =
                  Append(@, <<"Duplicate tablet_id entry", tablet.tablet_id>>)]
          ELSE [self EXCEPT !.btreetabletsdiff =
                  Insert(@, tablet.tablet_id,
                         [TabletsDiffDefault EXCEPT
                            !.first_table_id = tablet.table_id,
                            !.first_state = tablet.state,
                            !.first_leader = unwrap_or(tablet.leader, "")])]
    IN first_replicas(merged, tablet, unwrap_or(tablet.replicas, <<>>))

(***************************************************************************)
(* second_snapshot: entry().and_modify(second side).or_insert(second side) *)
(***************************************************************************)
\* mutant of second_keyspace: and_modify without or_insert, a keyspace that
\* has no record yet gets none
second_keyspace_modify_only(self, keyspace) ==
    IF keyspace.keyspace_id \in DOMAIN self.btreekeyspacediff
    THEN [self EXCEPT !.btreekeyspacediff[keyspace.keyspace_id] =
            [@ EXCEPT !.second_keyspace_name = keyspace.keyspace_name,
                      !.second_keyspace_type = keyspace.keyspace_type]]
    ELSE self

second_keyspace(self, keyspace) ==
    LET old == IF keyspace.keyspace_id \in DOMAIN self.btreekeyspacediff
               THEN self.btreekeyspacediff[keyspace.keyspace_id]
               ELSE KeyspaceDiffDefault
    IN [self EXCEPT !.btreekeyspacediff =
          Insert(@, keyspace.keyspace_id,
                 [old EXCEPT !.second_keyspace_name = keyspace.keyspace_name,
                             !.second_keyspace_type = keyspace.keyspace_type])]

second_table(self, table) ==
    LET old == IF table.table_id \in DOMAIN self.btreetablesdiff
               THEN self.btreetablesdiff[table.table_id]
               ELSE TablesDiffDefault
    IN [self EXCEPT !.btreetablesdiff =
          Insert(@, table.table_id,
                 [old EXCEPT !.second_keyspace_id = table.keyspace_id,
                             !.second_table_name = table.table_name,
                             !.second_state = table.state])]

second_replica(self, tablet, replica) ==
    LET key == <<tablet.tablet_id, replica.server_uuid>>
        old == IF key \in DOMAIN self.btreereplicasdiff
               THEN self.btreereplicasdiff[key]
               ELSE ReplicasDiffDefault
    IN [self EXCEPT !.btreereplicasdiff =
          Insert(@, key,
                 [old EXCEPT !.second_addr = replica.addr,
                             !.second_replica_type = replica.replica_type])]

RECURSIVE second_replicas(_, _, _)
second_replicas(self, tablet, replicas) ==
    IF replicas = <<>> THEN self
    ELSE second_replicas(second_replica(self, tablet, Head(replicas)),
                         tablet, Tail(replicas))

second_tablet(self, tablet) ==
    LET old == IF tablet.tablet_id \in DOMAIN self.btreetabletsdiff
               THEN self.btreetabletsdiff[tablet.tablet_id]
               ELSE TabletsDiffDefault
        merged ==
          [self EXCEPT !.btreetabletsdiff =
             Insert(@, tablet.tablet_id,
                    [old EXCEPT !.second_table_id = tablet.table_id,
                                !.second_state = tablet.state,
                                !.second_leader = unwrap_or(tablet.leader, "")])]
    IN second_replicas(merged, tablet, unwrap_or(tablet.replicas, <<>>))

(***************************************************************************)
(* The loops of the two passes.  side is 1 for first_snapshot and 2 for    *)
(* second_snapshot; the passes differ only in the entry operations above.  *)
(***************************************************************************)
RECURSIVE merge_keyspaces(_, _, _)
merge_keyspaces(self, rows, side) ==
    IF rows = <<>> THEN self
    ELSE merge_keyspaces(IF side = 1 THEN first_keyspace(self, Head(rows))
                         ELSE second_keyspace(self, Head(rows)),
                         Tail(rows), side)

RECURSIVE merge_tables(_, _, _)
merge_tables(self, rows, side) ==
    IF rows = <<>> THEN self
    ELSE merge_tables(IF side = 1 THEN first_table(self, Head(rows))
                      ELSE second_table(self, Head(rows)),
                      Tail(rows), side)

RECURSIVE merge_tablets(_, _, _)
merge_tablets(self, rows, side) ==
    IF rows = <<>> THEN self
    ELSE merge_tablets(IF side = 1 THEN first_tablet(self, Head(rows))
                       ELSE second_tablet(self, Head(rows)),
                       Tail(rows), side)

merge_entity(self, entity, side) ==
    merge_tablets(
        merge_tables(
            merge_keyspaces(self, entity.keyspaces, side),
            entity.tables, side),
        entity.tablets, side)

\* for entity in allentities.entities.iter().filter(hostname_port == master_leader)
RECURSIVE merge_entities(_, _, _, _)
merge_entities(self, entities, master_leader, side) ==
    IF entities = <<>> THEN self
    ELSE LET entity == Head(entities) IN
         merge_entities(
            IF entity.hostname_port = Some(master_leader)
            THEN merge_entity(self, entity, side) ELSE self,
            Tail(entities), master_leader, side)

first_snapshot(self, entities, master_leader) ==
    IF master_leader = ""
    THEN [self EXCEPT !.master_found = FALSE]
    ELSE merge_entities([self EXCEPT !.master_found = TRUE],
                        entities, master_leader, 1)

second_snapshot(self, entities, master_leader) ==
    IF master_leader = ""
    THEN [self EXCEPT !.master_found = FALSE]
    ELSE merge_entities([self EXCEPT !.master_found = TRUE],
                        entities, master_leader, 2)

(***************************************************************************)
(* EntitiesDiff::print.  A printed line is a record: sym is the prefix     *)
(* (+, -, =), key the map key of the record it is about, shown the values  *)
(* interpolated once, changes the old->new pairs.                          *)
(***************************************************************************)
Line(sym, kind, key, shown, changes) ==
    [sym |-> sym, kind |-> kind, key |-> key, shown |-> shown, changes |-> changes]
Change(field, old, new) == [field |-> field, old |-> old, new |-> new]

MasterNotFoundLine ==
    Line("", "Message", <<>>,
         <<"Master leader was not found in hosts specified, skipping entity diff.">>,
         <<>>)

\* what one iteration of a print loop does: lines written, errors logged,
\* and whether it panicked (an unwrap of an Err)
Printed(lines, errs, panicked) ==
    [lines |-> lines, errors |-> errs, panicked |-> panicked]
Nothing == Printed(<<>>, <<>>, FALSE)

\* mutant of keyspace_get: the type is always read from the first side
keyspace_get_first_type(self, keyspace_id, field) ==
    IF keyspace_id \in DOMAIN self.btreekeyspacediff
    THEN self.btreekeyspacediff[keyspace_id][IF field = "second_keyspace_type"
                                             THEN "first_keyspace_type" ELSE field]
    ELSE ""

\* self.btreekeyspacediff.get(id).map(|r| r.<field>.clone()).unwrap_or_default()
keyspace_get(self, keyspace_id, field) ==
    IF keyspace_id \in DOMAIN self.btreekeyspacediff
    THEN self.btreekeyspacediff[keyspace_id][field] ELSE ""

\* mutant of table_get: an id without a record is rendered as the id itself
table_get_or_id(self, table_id, field) ==
    IF table_id \in DOMAIN self.btreetablesdiff
    THEN self.btreetablesdiff[table_id][field] ELSE table_id

\* self.btreetablesdiff.get(id).map(|r| r.<field>.clone()).unwrap_or_default()
table_get(self, table_id, field) ==
    IF table_id \in DOMAIN self.btreetablesdiff
    THEN self.btreetablesdiff[table_id][field] ELSE ""

\* btreetablesdiff.get(table_id).map(|r| btreekeyspacediff.get(r.<ksfield>)
\*     .map(|r| r.<field>).unwrap_or_default()).unwrap_or_default()
table_keyspace_get(self, table_id, ksfield, field) ==
    IF table_id \in DOMAIN self.btreetablesdiff
    THEN keyspace_get(self, self.btreetablesdiff[table_id][ksfield], field)
    ELSE ""

\* btreetabletsdiff.get(tablet_id).map(|tablet| <lookup through tablet.<tfield>>)
tablet_table_get(self, tablet_id, tfield, field) ==
    IF tablet_id \in DOMAIN self.btreetabletsdiff
    THEN table_get(self, self.btreetabletsdiff[tablet_id][tfield], field)
    ELSE ""
tablet_keyspace_get(self, tablet_id, tfield, ksfield, field) ==
    IF tablet_id \in DOMAIN self.btreetabletsdiff
    THEN table_keyspace_get(self, self.btreetabletsdiff[tablet_id][tfield], ksfield, field)
    ELSE ""

\* mutant of leader_addr: the address is always read from the second side
leader_addr_second_side(self, tablet_id, leader, field) ==
    IF <<tablet_id, leader>> \in DOMAIN self.btreereplicasdiff
    THEN self.btreereplicasdiff[<<tablet_id, leader>>].second_addr ELSE ""

\* btreereplicasdiff.iter().find(|((t, u), _)| t == tablet_id && u == leader)
\*     .map(|(_, r)| r.<field>.clone()).unwrap_or_default()
leader_addr(self, tablet_id, leader, field) ==
    IF <<tablet_id, leader>> \in DOMAIN self.btreereplicasdiff
    THEN self.btreereplicasdiff[<<tablet_id, leader>>][field] ELSE ""

\* mutant of table_count: both counts read the first side
table_count_first_side(self, keyspace_id, field) ==
    Cardinality({t \in DOMAIN self.btreetablesdiff :
                    self.btreetablesdiff[t].first_keyspace_id = keyspace_id})

\* btreetablesdiff.iter().filter(|(_k,v)| v.<field> == keyspace_id).count()
table_count(self, keyspace_id, field) ==
    Cardinality({t \in DOMAIN self.btreetablesdiff :
                    self.btreetablesdiff[t][field] = keyspace_id})

\* mutant of has_colocated_tablet: a root tablet on either side counts
has_colocated_tablet_any_side(self, keyspace_id, field) ==
    \E t \in DOMAIN self.btreetabletsdiff :
        \/ self.btreetabletsdiff[t].first_table_id = keyspace_id \o ".colocated.parent.uuid"
        \/ self.btreetabletsdiff[t].second_table_id = keyspace_id \o ".colocated.parent.uuid"

\* btreetabletsdiff.iter().any(|(_k,v)| v.<field> == format!("{}.colocated.parent.uuid", id))
has_colocated_tablet(self, keyspace_id, field) ==
    \E t \in DOMAIN self.btreetabletsdiff :
        self.btreetabletsdiff[t][field] = keyspace_id \o ".colocated.parent.uuid"

\* btreetabletsdiff.iter().any(|(_k,v)| v.<field> == table_id)
has_linked_tablet(self, table_id, field) ==
    \E t \in DOMAIN self.btreetabletsdiff :
        self.btreetabletsdiff[t][field] = table_id

keyspace_colocation(self, keyspace_id, tfield, type) ==
    IF has_colocated_tablet(self, keyspace_id, tfield) /\ type = "ysql"
    THEN "[colocated]" ELSE ""

(***************************************************************************)
(* The keyspace loop body.                                                 *)
(***************************************************************************)
print_keyspace(self, keyspace_id) ==
    LET keyspace_row == self.btreekeyspacediff[keyspace_id]
        first_snapshot_table_count == table_count(self, keyspace_id, "first_keyspace_id")
        second_snapshot_table_count == table_count(self, keyspace_id, "second_keyspace_id")
        removed ==
            Line("-", "Database", <<keyspace_id>>,
                 <<keyspace_row.first_keyspace_type, keyspace_row.first_keyspace_name,
                   keyspace_id,
                   keyspace_colocation(self, keyspace_id, "first_table_id",
                                       keyspace_row.first_keyspace_type)>>,
                 <<>>)
    IN
    IF /\ keyspace_row.first_keyspace_name = keyspace_row.second_keyspace_name
       /\ keyspace_row.first_keyspace_type = keyspace_row.second_keyspace_type
    THEN IF keyspace_row.second_keyspace_type = "ysql"
         THEN IF \/ first_snapshot_table_count > 0 /\ second_snapshot_table_count > 0
                 \/ first_snapshot_table_count = 0 /\ second_snapshot_table_count = 0
              THEN Nothing
              ELSE IF first_snapshot_table_count > 0 /\ second_snapshot_table_count = 0
              THEN Printed(<<removed>>, <<>>, FALSE)
              ELSE IF first_snapshot_table_count = 0 /\ second_snapshot_table_count > 0
              THEN Printed(<<>>,
                           << <<"ysql keyspace table count was zero, now is not", keyspace_id>> >>,
                           FALSE)
              ELSE Nothing
         ELSE Nothing
    ELSE IF keyspace_row.first_keyspace_name = "" /\ keyspace_row.first_keyspace_type = ""
    THEN Printed(
           <<Line("+", "Database", <<keyspace_id>>,
                  <<keyspace_row.second_keyspace_type, keyspace_row.second_keyspace_name,
                    keyspace_id,
                    keyspace_colocation(self, keyspace_id, "second_table_id",
                                        keyspace_row.second_keyspace_type)>>,
                  <<>>)>>,
           <<>>, FALSE)
    ELSE IF keyspace_row.second_keyspace_name = "" /\ keyspace_row.second_keyspace_type = ""
    THEN Printed(<<removed>>, <<>>, FALSE)
    ELSE Printed(
           <<Line("=", "Database", <<keyspace_id>>,
                  <<keyspace_row.first_keyspace_type, keyspace_id,
                    keyspace_colocation(self, keyspace_id, "first_table_id",
                                        keyspace_row.first_keyspace_type)>>,
                  <<Change("name", keyspace_row.first_keyspace_name,
                           keyspace_row.second_keyspace_name)>>)>>,
           <<>>, FALSE)

(***************************************************************************)
(* object_oid_number: the last 8 of 32 characters, read as base 16.        *)
(* u32::from_str_radix returns Err on a character that is no digit, and    *)
(* the unwrap then panics: -1 stands for that.                             *)
(***************************************************************************)
LowerHex == "0123456789abcdef"
UpperHex == "0123456789ABCDEF"

\* char::to_digit(16): 0..15, or -1 for a character that is no hex digit
to_digit(c) ==
    IF \E i \in 1..16 : SubSeq(LowerHex, i, i) = c
    THEN (CHOOSE i \in 1..16 : SubSeq(LowerHex, i, i) = c) - 1
    ELSE IF \E i \in 1..16 : SubSeq(UpperHex, i, i) = c
    THEN (CHOOSE i \in 1..16 : SubSeq(UpperHex, i, i) = c) - 1
    ELSE -1

RECURSIVE radix_digits(_, _)
radix_digits(src, acc) ==
    IF Len(src) = 0 THEN acc
    ELSE LET d == to_digit(SubSeq(src, 1, 1)) IN
         IF d = -1 THEN -1
         ELSE radix_digits(SubSeq(src, 2, Len(src)), acc * 16 + d)

\* u32::from_str_radix(src, 16): an optional leading '+', then one or more digits
from_str_radix(src) ==
    LET digits == IF Len(src) > 1 /\ SubSeq(src, 1, 1) = "+"
                  THEN SubSeq(src, 2, Len(src)) ELSE src
    IN IF Len(digits) = 0 THEN -1 ELSE radix_digits(digits, 0)

\* mutant of object_oid_number: the slice starts and ends one character early
object_oid_number_shifted(oid) ==
    IF Len(oid) = 32 THEN from_str_radix(SubSeq(oid, 24, 31)) ELSE 0

object_oid_number(oid) ==
    IF Len(oid) = 32 THEN from_str_radix(SubSeq(oid, 25, 32)) ELSE 0

(***************************************************************************)
(* The table loop body.                                                    *)
(***************************************************************************)
\* the [colocated] marker of a table line, on the side named by the fields
\* mutant of table_colocation: the type of the keyspace is not looked at
table_colocation_any_type(self, table_id, keyspace_type, tfield) ==
    IF /\ object_oid_number(table_id) >= 16384
       /\ ~has_linked_tablet(self, table_id, tfield)
    THEN "[colocated]" ELSE ""

table_colocation(self, table_id, keyspace_type, tfield) ==
    IF /\ keyspace_type = "ysql"
       /\ object_oid_number(table_id) >= 16384
       /\ ~has_linked_tablet(self, table_id, tfield)
    THEN "[colocated]" ELSE ""

\* the conditions of the marker evaluate object_oid_number only for ysql (&&)
table_colocation_panics(table_id, keyspace_type) ==
    keyspace_type = "ysql" /\ object_oid_number(table_id) = -1

print_table(self, table_id) ==
    LET table_row == self.btreetablesdiff[table_id]
        first_type == keyspace_get(self, table_row.first_keyspace_id, "first_keyspace_type")
        first_name == keyspace_get(self, table_row.first_keyspace_id, "first_keyspace_name")
        second_type == keyspace_get(self, table_row.second_keyspace_id, "second_keyspace_type")
        second_name == keyspace_get(self, table_row.second_keyspace_id, "second_keyspace_name")
    IN
    IF /\ table_row.first_keyspace_id = table_row.second_keyspace_id
       /\ table_row.first_table_name = table_row.second_table_name
       /\ table_row.first_state = table_row.second_state
    THEN Nothing
    ELSE IF /\ table_row.first_table_name = ""
            /\ table_row.first_state = ""
            /\ table_row.first_keyspace_id = ""
    THEN IF object_oid_number(table_id) = -1
         THEN Printed(<<>>, <<>>, TRUE)
         ELSE IF object_oid_number(table_id) < 16384 /\ second_type = "ysql"
         THEN Nothing
         ELSE Printed(
                <<Line("+", "Object", <<table_id>>,
                       <<second_type, second_name, table_row.second_table_name,
                         table_row.second_state, table_id,
                         table_colocation(self, table_id, second_type, "second_table_id")>>,
                       <<>>)>>,
                <<>>, FALSE)
    ELSE IF /\ table_row.second_table_name = ""
            /\ table_row.second_state = ""
            /\ table_row.second_keyspace_id = ""
    THEN IF object_oid_number(table_id) = -1
         THEN Printed(<<>>, <<>>, TRUE)
         ELSE IF object_oid_number(table_id) < 16384 /\ first_type = "ysql"
         THEN Nothing
         ELSE Printed(
                <<Line("-", "Object", <<table_id>>,
                       <<first_type, first_name, table_row.first_table_name,
                         table_row.first_state, table_id,
                         table_colocation(self, table_id, first_type, "first_table_id")>>,
                       <<>>)>>,
                <<>>, FALSE)
    ELSE IF table_colocation_panics(table_id, first_type)
         THEN Printed(<<>>, <<>>, TRUE)
         ELSE Printed(
                <<Line("=", "Object", <<table_id>>,
                       <<first_type, first_name>>
                       \o (IF table_row.first_table_name # table_row.second_table_name
                           THEN <<>> ELSE <<table_row.first_table_name>>)
                       \o (IF table_row.first_state # table_row.second_state
                           THEN <<>> ELSE <<table_row.first_state>>)
                       \o <<table_id,
                            table_colocation(self, table_id, first_type, "first_table_id")>>,
                       (IF table_row.first_table_name # table_row.second_table_name
                        THEN <<Change("name", table_row.first_table_name,
                                      table_row.second_table_name)>>
                        ELSE <<>>)
                       \o (IF table_row.first_state # table_row.second_state
                           THEN <<Change("state", table_row.first_state,
                                         table_row.second_state)>>
                           ELSE <<>>))>>,
                <<>>, FALSE)

(***************************************************************************)
(* The tablet loop body.                                                   *)
(***************************************************************************)
print_tablet(self, tablet_id) ==
    LET tablet_row == self.btreetabletsdiff[tablet_id]
        second_shown ==
            <<table_keyspace_get(self, tablet_row.second_table_id,
                                 "second_keyspace_id", "second_keyspace_type"),
              table_keyspace_get(self, tablet_row.second_table_id,
                                 "second_keyspace_id", "second_keyspace_name"),
              table_get(self, tablet_row.second_table_id, "second_table_name"),
              tablet_id>>
        first_shown ==
            <<table_keyspace_get(self, tablet_row.first_table_id,
                                 "first_keyspace_id", "first_keyspace_type"),
              table_keyspace_get(self, tablet_row.first_table_id,
                                 "first_keyspace_id", "first_keyspace_name"),
              table_get(self, tablet_row.first_table_id, "first_table_name"),
              tablet_id>>
        first_leader_addr ==
            leader_addr(self, tablet_id, tablet_row.first_leader, "first_addr")
        second_leader_addr ==
            leader_addr(self, tablet_id, tablet_row.second_leader, "second_addr")
    IN
    IF /\ tablet_row.first_table_id = tablet_row.second_table_id
       /\ tablet_row.first_state = tablet_row.second_state
       /\ tablet_row.first_leader = tablet_row.second_leader
    THEN Nothing
    ELSE IF /\ tablet_row.first_table_id = ""
            /\ tablet_row.first_state = ""
            /\ tablet_row.first_leader = ""
    THEN Printed(<<Line("+", "Tablet", <<tablet_id>>,
                        second_shown \o <<tablet_row.second_state, second_leader_addr>>,
                        <<>>)>>,
                 <<>>, FALSE)
    ELSE IF /\ tablet_row.second_table_id = ""
            /\ tablet_row.second_state = ""
            /\ tablet_row.second_leader = ""
    THEN Printed(<<Line("-", "Tablet", <<tablet_id>>,
                        first_shown \o <<tablet_row.first_state, first_leader_addr>>,
                        <<>>)>>,
                 <<>>, FALSE)
    ELSE Printed(
           <<Line("=", "Tablet", <<tablet_id>>,
                  second_shown
                  \o (IF tablet_row.first_state # tablet_row.second_state
                      THEN <<>> ELSE <<tablet_row.second_state>>)
                  \o (IF tablet_row.first_leader # tablet_row.second_leader
                      THEN <<>> ELSE <<second_leader_addr>>),
                  (IF tablet_row.first_state # tablet_row.second_state
                   THEN <<Change("state", tablet_row.first_state, tablet_row.second_state)>>
                   ELSE <<>>)
                  \o (IF tablet_row.first_leader # tablet_row.second_leader
                      THEN <<Change("leader", first_leader_addr, second_leader_addr)>>
                      ELSE <<>>))>>,
           <<>>, FALSE)

(***************************************************************************)
(* The replica loop body.                                                  *)
(***************************************************************************)
print_replica(self, key) ==
    LET tablet_id == key[1]
        replica_row == self.btreereplicasdiff[key]
        second_shown ==
            <<tablet_keyspace_get(self, tablet_id, "second_table_id",
                                  "second_keyspace_id", "second_keyspace_type"),
              tablet_keyspace_get(self, tablet_id, "second_table_id",
                                  "second_keyspace_id", "second_keyspace_name"),
              tablet_table_get(self, tablet_id, "second_table_id", "second_table_name"),
              tablet_id>>
        first_shown ==
            <<tablet_keyspace_get(self, tablet_id, "first_table_id",
                                  "first_keyspace_id", "first_keyspace_type"),
              tablet_keyspace_get(self, tablet_id, "first_table_id",
                                  "first_keyspace_id", "first_keyspace_name"),
              tablet_table_get(self, tablet_id, "first_table_id", "first_table_name"),
              tablet_id>>
    IN
    IF /\ replica_row.first_replica_type = replica_row.second_replica_type
       /\ replica_row.first_addr = replica_row.second_addr
    THEN Nothing
    ELSE IF replica_row.first_replica_type = "" /\ replica_row.first_addr = ""
    THEN Printed(<<Line("+", "Replica", key,
                        <<replica_row.second_addr>> \o second_shown
                        \o <<replica_row.second_replica_type>>,
                        <<>>)>>,
                 <<>>, FALSE)
    ELSE IF replica_row.second_replica_type = "" /\ replica_row.second_addr = ""
    THEN Printed(<<Line("-", "Replica", key,
                        <<replica_row.first_addr>> \o first_shown
                        \o <<replica_row.first_replica_type>>,
                        <<>>)>>,
                 <<>>, FALSE)
    ELSE Printed(
           <<Line("=", "Replica", key,
                  (IF replica_row.first_addr # replica_row.second_addr
                   THEN <<>> ELSE <<replica_row.second_addr>>)
                  \o second_shown
                  \o (IF replica_row.first_replica_type # replica_row.second_replica_type
                      THEN <<>> ELSE <<replica_row.second_replica_type>>),
                  (IF replica_row.first_addr # replica_row.second_addr
                   THEN <<Change("addr", replica_row.first_addr, replica_row.second_addr)>>
                   ELSE <<>>)
                  \o (IF replica_row.first_replica_type # replica_row.second_replica_type
                      THEN <<Change("type", replica_row.first_replica_type,
                                    replica_row.second_replica_type)>>
                      ELSE <<>>))>>,
           <<>>, FALSE)

(***************************************************************************)
(* print: the master_found guard and the four loops, each over its map in  *)
(* ascending key order.  A panic ends the function where it happens.       *)
(***************************************************************************)
print_row(self, kind, key) ==
    CASE kind = "Database" -> print_keyspace(self, key)
      [] kind = "Object" -> print_table(self, key)
      [] kind = "Tablet" -> print_tablet(self, key)
      [] kind = "Replica" -> print_replica(self, key)

RECURSIVE print_loop(_, _, _, _)
print_loop(acc, self, kind, keys) ==
    IF keys = <<>> \/ acc.panicked THEN acc
    ELSE LET r == print_row(self, kind, Head(keys)) IN
         print_loop(Printed(acc.lines \o r.lines, acc.errors \o r.errors, r.panicked),
                    self, kind, Tail(keys))

\* mutant of KeysInOrder: the map is walked from its last key to its first
KeysInOrder_descending(map, sorted) ==
    LET keys == SelectSeq(sorted, LAMBDA k : k \in DOMAIN map)
    IN [i \in 1..Len(keys) |-> keys[Len(keys) + 1 - i]]

\* the keys of a map in the order a BTreeMap iterates them
KeysInOrder(map, sorted) == SelectSeq(sorted, LAMBDA k : k \in DOMAIN map)

print(self) ==
    IF ~self.master_found
    THEN Printed(<<MasterNotFoundLine>>, <<>>, FALSE)
    ELSE print_loop(
           print_loop(
             print_loop(
               print_loop(Nothing, self, "Database",
                          KeysInOrder(self.btreekeyspacediff, SortedKeyspaceIds)),
               self, "Object", KeysInOrder(self.btreetablesdiff, SortedTableIds)),
             self, "Tablet", KeysInOrder(self.btreetabletsdiff, SortedTabletIds)),
           self, "Replica", KeysInOrder(self.btreereplicasdiff, SortedReplicaKeys))

(***************************************************************************)
(* The diff program: entity_diff (snapshot_diff, then print) and the       *)
(* ad-hoc diff (adhoc_read_first_snapshot, adhoc_read_second_snapshot,     *)
(* then print).  observed["begin"] and observed["end"] are what the        *)
(* snapshot store (or the live cluster) holds for the two reads: the       *)
(* aggregate and the leader that isleader reports for it.                  *)
(***************************************************************************)
\* the EntitiesDiff value of a pass result, and the pass input with its log
Engine(self) ==
    [btreekeyspacediff |-> self.btreekeyspacediff,
     btreetablesdiff |-> self.btreetablesdiff,
     btreetabletsdiff |-> self.btreetabletsdiff,
     btreereplicasdiff |-> self.btreereplicasdiff,
     master_found |-> self.master_found]
Logged(diff, log) ==
    [btreekeyspacediff |-> diff.btreekeyspacediff,
     btreetablesdiff |-> diff.btreetablesdiff,
     btreetabletsdiff |-> diff.btreetabletsdiff,
     btreereplicasdiff |-> diff.btreereplicasdiff,
     master_found |-> diff.master_found, errors |-> log]

snapshot_diff(begin_snapshot, end_snapshot) ==
    LET first == first_snapshot(EntitiesDiffNew,
                                observed[begin_snapshot].entities,
                                observed[begin_snapshot].leader)
    IN second_snapshot(first,
                       observed[end_snapshot].entities,
                       observed[begin_snapshot].leader)

SnapshotDiff ==
    /\ pc = "start"
    /\ LET r == snapshot_diff("begin", "end") IN
         /\ entitiesdiff' = Engine(r)
         /\ errors' = errors \o r.errors
    /\ pc' = "second"
    /\ via' = "snapshot_diff"
    /\ UNCHANGED <<observed, output>>
    /\ UNCHANGED collvars

AdhocReadFirstSnapshot ==
    /\ pc = "start"
    /\ LET r == first_snapshot(Logged(entitiesdiff, <<>>),
                               observed["begin"].entities, observed["begin"].leader) IN
         /\ entitiesdiff' = Engine(r)
         /\ errors' = errors \o r.errors
    /\ pc' = "first"
    /\ via' = "adhoc"
    /\ UNCHANGED <<observed, output>>
    /\ UNCHANGED collvars

AdhocReadSecondSnapshot ==
    /\ pc = "first"
    /\ LET r == second_snapshot(Logged(entitiesdiff, <<>>),
                                observed["end"].entities, observed["end"].leader) IN
         /\ entitiesdiff' = Engine(r)
         /\ errors' = errors \o r.errors
    /\ pc' = "second"
    /\ UNCHANGED <<observed, output, via>>
    /\ UNCHANGED collvars

EntitiesDiffPrint ==
    /\ pc = "second"
    /\ LET r == print(entitiesdiff) IN
         /\ output' = output \o r.lines
         /\ errors' = errors \o r.errors
         /\ pc' = IF r.panicked THEN "panicked" ELSE "done"
    /\ UNCHANGED <<observed, entitiesdiff, via>>
    /\ UNCHANGED collvars

(***************************************************************************)
(* The observations the diff program is run on.  A per-node snapshot that  *)
(* read_entities returned (and perform_snapshot stored) has at least one   *)
(* keyspace, one table and one tablet.                                     *)
(***************************************************************************)
KeyspaceRows ==
    {KeyspaceRow(K1, "a", "ysql"), KeyspaceRow(K1, "a", "ycql"),
     KeyspaceRow(K1, "b", "ysql"), KeyspaceRow(K2, "c", "ycql")}
TableRows ==
    {TableRow(T1, K1, "t", "RUNNING"), TableRow(T1, K2, "t", "RUNNING")}
TabletRows ==
    {TabletRow(TB1, T1, "RUNNING", None, None),
     TabletRow(TB1, T1, "RUNNING", Some(S1),
               Some(<<ReplicaRow("VOTER", S1, "yb-1.local:9100")>>))}

\* rows a tablet stands for: itself and its replicas
RECURSIVE TabletWeight(_)
TabletWeight(tablets) ==
    IF tablets = <<>> THEN 0
    ELSE 1 + Len(unwrap_or(Head(tablets).replicas, <<>>)) + TabletWeight(Tail(tablets))

SeqsOfLen(S, n) == [1..n -> S]

\* the per-node snapshots of at most rows rows, with every collection non-empty
Contents(rows) ==
    UNION { UNION { { [keyspaces |-> ks, tables |-> ts, tablets |-> tbs] :
                        ks \in SeqsOfLen(KeyspaceRows, nk),
                        ts \in SeqsOfLen(TableRows, nt),
                        tbs \in { x \in UNION {SeqsOfLen(TabletRows, nb) :
                                               nb \in 1..(rows - nk - nt)} :
                                    TabletWeight(x) <= rows - nk - nt } } :
                    nt \in 1..(rows - nk - 1) } :
            nk \in 1..(rows - 2) }

\* the Entities a task of read_entities sends for a node
NodeEntities(node, content) ==
    [hostname_port |-> Some(node), timestamp |-> Some(0),
     keyspaces |-> content.keyspaces, tables |-> content.tables,
     tablets |-> content.tablets]

Observation(entities, leader) == [entities |-> entities, leader |-> leader]

CollectorIdle ==
    /\ responses = <<>>
    /\ task = <<>>
    /\ now = 0
    /\ started = <<>>
    /\ channel = <<>>
    /\ allentities = <<>>
    /\ parallel = 1
    /\ cpc = "idle"

DiffStart ==
    /\ entitiesdiff = Engine(EntitiesDiffNew)
    /\ errors = <<>>
    /\ output = <<>>
    /\ pc = "start"
    /\ via = "none"

\* both reads answered by the leader alone, with any two contents
Init ==
    /\ \E a \in Contents(MaxRows), b \in Contents(MaxRows) :
         observed = [n \in {"begin", "end"} |->
                       Observation(<<NodeEntities(Node1, IF n = "begin" THEN a ELSE b)>>,
                                   Node1)]
    /\ DiffStart
    /\ CollectorIdle

Next ==
    \/ SnapshotDiff
    \/ AdhocReadFirstSnapshot
    \/ AdhocReadSecondSnapshot
    \/ EntitiesDiffPrint

Spec == Init /\ [][Next]_vars

(***************************************************************************)
(* The collector: AllEntities::read_entities.  A rayon pool of parallel    *)
(* threads runs the scope closure, which spawns one task per (host, port); *)
(* the scope returns when every spawned task has finished; the receive     *)
(* loop then drains the channel through the filter.                        *)
(***************************************************************************)
AllHosts == <<"yb-1.local", "yb-2.local", "yb-3.local", "yb-4.local">>
hosts == SubSeq(AllHosts, 1, MaxHosts)
ports == <<"7000">>

\* the (host, port) pairs in the order the nested for loops visit them
Pairs == [i \in 1..(Len(hosts) * Len(ports)) |->
            <<hosts[((i - 1) \div Len(ports)) + 1], ports[((i - 1) % Len(ports)) + 1]>>]
PairIds == DOMAIN Pairs

\* format!("{}:{}", host, port)
HostnamePort(i) == Pairs[i][1] \o ":" \o Pairs[i][2]

\* A body http_get returns: a document serde_json can deserialize into
\* Entities (json = TRUE, with its three arrays), or anything else.
Body(json, keyspaces, tables, tablets) ==
    [json |-> json, keyspaces |-> keyspaces, tables |-> tables, tablets |-> tablets]

\* mutant of parse_entities: the struct is built without its tablets
parse_entities_without_tablets(entities_data) ==
    IF entities_data.json
    THEN [EntitiesNew EXCEPT !.keyspaces = entities_data.keyspaces,
                             !.tables = entities_data.tables]
    ELSE EntitiesNew

\* serde_json::from_str(..).unwrap_or_else(|e| { debug!(..); Entities::new() })
parse_entities(entities_data) ==
    IF entities_data.json
    THEN [EntitiesNew EXCEPT !.keyspaces = entities_data.keyspaces,
                             !.tables = entities_data.tables,
                             !.tablets = entities_data.tablets]
    ELSE EntitiesNew

\* mutant of is_complete: the tablets collection is not looked at
is_complete_without_tablets(r) == r.keyspaces # <<>> /\ r.tables # <<>>

\* the filter of the receive loop
is_complete(r) == r.keyspaces # <<>> /\ r.tables # <<>> /\ r.tablets # <<>>

\* number of tasks a pool thread is executing
Running == Cardinality({i \in PairIds : task[i] = "running"})

\* the thread that runs the scope closure spawns until the loops end
Spawning == \E i \in PairIds : task[i] = "unspawned"

\* s.spawn(..): the closure's loops hand the next pair's task to the pool
Spawn ==
    /\ cpc = "scope"
    /\ Spawning
    /\ LET i == CHOOSE i \in PairIds :
                  task[i] = "unspawned" /\ \A j \in 1..(i - 1) : task[j] # "unspawned"
       IN task' = [task EXCEPT ![i] = "queued"]
    /\ UNCHANGED <<responses, now, started, channel, allentities, parallel, cpc>>
    /\ UNCHANGED diffvars

\* a free pool thread takes a task: let detail_snapshot_time = Local::now()
TaskStart(i) ==
    /\ cpc = "scope"
    /\ task[i] = "queued"
    /\ Running < parallel - (IF Spawning THEN 1 ELSE 0)
    /\ task' = [task EXCEPT ![i] = "running"]
    /\ started' = [started EXCEPT ![i] = now]
    /\ now' = now + 1
    /\ UNCHANGED <<responses, channel, allentities, parallel, cpc>>
    /\ UNCHANGED diffvars

\* mutant of TaskSend: a body that does not parse ends the task (unwrap)
\* before anything is sent
TaskSend_unwrap(i) ==
    /\ cpc = "scope"
    /\ task[i] = "running"
    /\ LET entities == [parse_entities(responses[i]) EXCEPT
                          !.timestamp = Some(started[i]),
                          !.hostname_port = Some(HostnamePort(i))]
       IN channel' = IF responses[i].json THEN Append(channel, entities) ELSE channel
    /\ task' = [task EXCEPT ![i] = "sent"]
    /\ UNCHANGED <<responses, now, started, allentities, parallel, cpc>>
    /\ UNCHANGED diffvars

\* mutant of TaskSend: the channel is a rendezvous channel, a send waits
\* for the receive loop to take the value
TaskSend_rendezvous(i) ==
    /\ cpc = "filter"
    /\ task[i] = "running"
    /\ LET entities == [parse_entities(responses[i]) EXCEPT
                          !.timestamp = Some(started[i]),
                          !.hostname_port = Some(HostnamePort(i))]
       IN channel' = Append(channel, entities)
    /\ task' = [task EXCEPT ![i] = "sent"]
    /\ UNCHANGED <<responses, now, started, allentities, parallel, cpc>>
    /\ UNCHANGED diffvars

\* read_http returns; the task stamps the Entities and sends it
TaskSend(i) ==
    /\ cpc = "scope"
    /\ task[i] = "running"
    /\ LET entities == [parse_entities(responses[i]) EXCEPT
                          !.timestamp = Some(started[i]),
                          !.hostname_port = Some(HostnamePort(i))]
       IN channel' = Append(channel, entities)
    /\ task' = [task EXCEPT ![i] = "sent"]
    /\ UNCHANGED <<responses, now, started, allentities, parallel, cpc>>
    /\ UNCHANGED diffvars

\* mutant of ScopeEnd: the scope returns when the closure has spawned the
\* tasks, without waiting for them
ScopeEnd_no_join ==
    /\ cpc = "scope"
    /\ ~Spawning
    /\ cpc' = "filter"
    /\ UNCHANGED <<responses, task, now, started, channel, allentities, parallel>>
    /\ UNCHANGED diffvars

\* pool.scope returns once every spawned task has completed
ScopeEnd ==
    /\ cpc = "scope"
    /\ \A i \in PairIds : task[i] = "sent"
    /\ cpc' = "filter"
    /\ UNCHANGED <<responses, task, now, started, channel, allentities, parallel>>
    /\ UNCHANGED diffvars

\* mutant of Receive: the entity replaces the vector instead of being pushed
Receive_assign ==
    /\ cpc = "filter"
    /\ channel # <<>>
    /\ channel' = Tail(channel)
    /\ allentities' = IF is_complete(Head(channel))
                      THEN <<Head(channel)>>
                      ELSE allentities
    /\ UNCHANGED <<responses, task, now, started, parallel, cpc>>
    /\ UNCHANGED diffvars

\* for entity in rx.iter().filter(..) { allentities.entities.push(entity) }
Receive ==
    /\ cpc = "filter"
    /\ channel # <<>>
    /\ channel' = Tail(channel)
    /\ allentities' = IF is_complete(Head(channel))
                      THEN Append(allentities, Head(channel))
                      ELSE allentities
    /\ UNCHANGED <<responses, task, now, started, parallel, cpc>>
    /\ UNCHANGED diffvars

\* every sender is dropped and the channel is empty: rx.iter() ends
ReturnAllEntities ==
    /\ cpc = "filter"
    /\ channel = <<>>
    /\ cpc' = "done"
    /\ UNCHANGED <<responses, task, now, started, channel, allentities, parallel>>
    /\ UNCHANGED diffvars

\* the bodies the nodes answer with
Bodies ==
    {Body(FALSE, <<>>, <<>>, <<>>),
     Body(TRUE, <<KeyspaceRow(K1, "a", "ysql")>>,
          <<TableRow(T1, K1, "t", "RUNNING")>>,
          <<TabletRow(TB1, T1, "RUNNING", None, None)>>),
     Body(TRUE, <<KeyspaceRow(K1, "a", "ysql")>>,
          <<TableRow(T1, K1, "t", "RUNNING")>>, <<>>)}

DiffIdle ==
    /\ observed = <<>>
    /\ DiffStart

InitCollector ==
    /\ responses \in [PairIds -> Bodies]
    /\ parallel \in 1..MaxParallel
    /\ task = [i \in PairIds |-> "unspawned"]
    /\ now = 0
    /\ started = [i \in PairIds |-> 0]
    /\ channel = <<>>
    /\ allentities = <<>>
    /\ cpc = "scope"
    /\ DiffIdle

NextCollector ==
    \/ Spawn
    \/ \E i \in PairIds : TaskStart(i)
    \/ \E i \in PairIds : TaskSend(i)
    \/ ScopeEnd
    \/ Receive
    \/ ReturnAllEntities

SpecCollector == InitCollector /\ [][NextCollector]_vars

(***************************************************************************)
(* The diff program on aggregates of several nodes, with any leader, the   *)
(* empty string (no leader found) included.                                *)
(***************************************************************************)
LeaderContents ==
    {[keyspaces |-> <<KeyspaceRow(K1, n, "ycql")>>,
      tables |-> <<TableRow(T1, K1, "t", "RUNNING")>>,
      tablets |-> <<TabletRow(TB1, T1, "RUNNING", None, None)>>] : n \in {"a", "b"}}

\* the aggregate with content c[i] from node i, for the nodes in DOMAIN c
RECURSIVE Aggregate(_, _)
Aggregate(c, i) ==
    IF i > Len(Pairs) THEN <<>>
    ELSE (IF i \in DOMAIN c THEN <<NodeEntities(HostnamePort(i), c[i])>> ELSE <<>>)
         \o Aggregate(c, i + 1)

Aggregates ==
    UNION {{Aggregate(c, 1) : c \in [N -> LeaderContents]} :
           N \in (SUBSET PairIds) \ {{}}}

Leaders == {""} \cup {HostnamePort(i) : i \in PairIds}

InitLeader ==
    /\ observed \in [{"begin", "end"} ->
                       {Observation(a, l) : a \in Aggregates, l \in Leaders}]
    /\ DiffStart
    /\ CollectorIdle

SpecLeader == InitLeader /\ [][Next]_vars

(***************************************************************************)
(* The diff program on leader snapshots chosen to exercise print: renamed, *)
(* retyped, dropped and system databases; moved, renamed, catalog and      *)
(* malformed tables; tablets that change leader, lose a replica, hang      *)
(* under a colocation root or under a table the snapshot does not list.    *)
(* Every collection is non-empty, as read_entities' filter leaves it.      *)
(***************************************************************************)
ColocatedParent(keyspace_id) == keyspace_id \o ".colocated.parent.uuid"

RenderKeyspaces ==
    {<<KeyspaceRow(K1, "a", "ysql")>>,
     <<KeyspaceRow(K1, "b", "ysql")>>,
     <<KeyspaceRow(K1, "a", "ycql")>>,
     <<KeyspaceRow(K2, "c", "ycql")>>,
     <<KeyspaceRow(Ksys, "system", "ycql"), KeyspaceRow(K1, "a", "ysql")>>}

RenderTables ==
    {<<TableRow(T1, K1, "t", "RUNNING")>>,
     <<TableRow(T1, K2, "t", "RUNNING")>>,
     <<TableRow(T1, K1, "u", "RUNNING")>>,
     <<TableRow(T1, K1, "t", "ALTERING")>>,
     <<TableRow(Tcat, K1, "pg_class", "RUNNING")>>,
     <<TableRow(Tcat, K1, "pg_class", "RUNNING"), TableRow(T1, K1, "t", "RUNNING")>>,
     <<TableRow(Tcat, Ksys, "local", "RUNNING")>>,
     <<TableRow(Tbad, K1, "x", "RUNNING")>>}

RenderTablets ==
    LET r1 == ReplicaRow("VOTER", S1, "yb-1.local:9100")
        r1moved == ReplicaRow("VOTER", S1, "yb-3.local:9100")
        r2 == ReplicaRow("VOTER", S2, "yb-2.local:9100")
    IN {<<TabletRow(TB1, T1, "RUNNING", Some(S1), Some(<<r1, r2>>))>>,
        <<TabletRow(TB1, T1, "RUNNING", Some(S2), Some(<<r1, r2>>))>>,
        <<TabletRow(TB1, T1, "RUNNING", Some(S2), Some(<<r1>>))>>,
        <<TabletRow(TB1, T1, "RUNNING", Some(S1), Some(<<r1moved, r2>>))>>,
        <<TabletRow(TB1, ColocatedParent(K1), "RUNNING", Some(S1), Some(<<r1, r2>>))>>,
        <<TabletRow(TB1, T1, "CREATING", None, None)>>,
        <<TabletRow(TB2, T1, "RUNNING", Some(S1), Some(<<r1>>))>>}

RenderContents ==
    {[keyspaces |-> ks, tables |-> ts, tablets |-> tbs] :
        ks \in RenderKeyspaces, ts \in RenderTables, tbs \in RenderTablets}

InitRender ==
    /\ \E a \in RenderContents, b \in RenderContents :
         observed = [n \in {"begin", "end"} |->
                       Observation(<<NodeEntities(Node1, IF n = "begin" THEN a ELSE b)>>,
                                   Node1)]
    /\ DiffStart
    /\ CollectorIdle

SpecRender == InitRender /\ [][Next]_vars

(***************************************************************************)
(* object_oid_number on its own: a view hands the closure a table_id.  The *)
(* ids are a fixed head followed by OidFreeChars characters drawn from     *)
(* hexadecimal digits of both cases and a letter that is no digit, cut to  *)
(* 31, 32 and 33 characters, and a few ids of other shapes.                *)
(***************************************************************************)
OidFreeChars == 4

OidChars == {"0", "4", "a", "F", "z"}

OidHead == "0000400f000030008000000000000000"

RECURSIVE OidTails(_)
OidTails(n) ==
    IF n = 0 THEN {""}
    ELSE {t \o c : t \in OidTails(n - 1), c \in OidChars}

OidInputs ==
    {SubSeq(OidHead, 1, len - OidFreeChars) \o t :
        len \in {31, 32, 33}, t \in OidTails(OidFreeChars)}
    \cup {"", "sys.catalog.uuid", "0000400f0000300080000000+0004000"}

\* if object_oid_number(table_id.as_str()) < 16384 ..: the closure is called
\* and its result compared; an unwrap of Err panics
ObjectOidNumber ==
    /\ pc = "decode"
    /\ LET n == object_oid_number(observed.oid) IN
         IF n = -1
         THEN /\ pc' = "panicked"
              /\ output' = output
         ELSE /\ pc' = "decoded"
              /\ output' = <<[value |-> n, below_16384 |-> n < 16384]>>
    /\ UNCHANGED <<observed, entitiesdiff, errors, via>>
    /\ UNCHANGED collvars

InitOid ==
    /\ observed \in {[oid |-> id] : id \in OidInputs}
    /\ entitiesdiff = Engine(EntitiesDiffNew)
    /\ errors = <<>>
    /\ output = <<>>
    /\ pc = "decode"
    /\ via = "none"
    /\ CollectorIdle

NextOid == ObjectOidNumber

SpecOid == InitOid /\ [][NextOid]_vars

(***************************************************************************)
(* The live view: AllEntities::print.  A printed line is a record: prefix  *)
(* is the hostname written before it when details are enabled, shown the   *)
(* interpolated values.  A Regex argument is the set of strings it         *)
(* matches.                                                                *)
(***************************************************************************)
LiveLine(prefix, kind, key, shown) ==
    [prefix |-> prefix, kind |-> kind, key |-> key, shown |-> shown]

\* if *details_enable { print!("{} ", entity.hostname_port.clone().unwrap()) }
live_prefix(entity, args) ==
    IF args.details_enable THEN entity.hostname_port[1] ELSE ""

\* entity.keyspaces.iter().find(|r| r.keyspace_id == keyspace_id)
find_keyspace(entity, keyspace_id) ==
    LET hits == SelectSeq(entity.keyspaces, LAMBDA r : r.keyspace_id = keyspace_id)
    IN IF hits = <<>> THEN None ELSE Some(Head(hits))

\* .find(..).map(|r| r.<field>.clone()).unwrap_or_default()
find_keyspace_field(entity, keyspace_id, field) ==
    LET found == find_keyspace(entity, keyspace_id)
    IN IF found = None THEN "" ELSE found[1][field]

\* the "[UNDER REPLICATED]" marker of a tablet line
under_replication_warning(tablet, args) ==
    IF \E i \in DOMAIN args.under_replicated_tablets :
          args.under_replicated_tablets[i] = tablet.tablet_id
    THEN "[UNDER REPLICATED]" ELSE ""

\* tablet.replicas.clone().unwrap_or_default().iter().map(..).collect::<String>()
live_replicas(tablet, args) ==
    LET replicas == unwrap_or(tablet.replicas, <<>>)
        leader == unwrap_or(tablet.leader, "")
    IN [i \in DOMAIN replicas |->
          [addr |-> replicas[i].addr,
           replica_type |-> replicas[i].replica_type,
           leader |-> replicas[i].server_uuid = leader,
           dead |-> \E d \in DOMAIN args.dead_nodes :
                       args.dead_nodes[d] = replicas[i].server_uuid]]

\* the Tablet line and the Replicas line of the tablets linked to table_id
RECURSIVE live_tablets(_, _, _, _, _)
live_tablets(entity, tablets, table_id, shown, args) ==
    IF tablets = <<>> THEN <<>>
    ELSE LET tablet == Head(tablets)
             rest == live_tablets(entity, Tail(tablets), table_id, shown, args)
         IN IF tablet.table_id = table_id
            THEN <<LiveLine(live_prefix(entity, args), "Tablet", <<tablet.tablet_id>>,
                            shown \o <<tablet.tablet_id, tablet.state,
                                       under_replication_warning(tablet, args)>>),
                   LiveLine(live_prefix(entity, args), "Replicas", <<tablet.tablet_id>>,
                            live_replicas(tablet, args))>>
                 \o rest
            ELSE rest

\* mutant of live_keyspace: the tables of a ysql keyspace are not counted
live_keyspace_uncounted(entity, row, args) ==
    IF ~args.details_enable /\ is_system_keyspace(row.keyspace_id)
    THEN <<>>
    ELSE <<LiveLine(live_prefix(entity, args), "Keyspace", <<row.keyspace_id>>,
                    <<row.keyspace_type, row.keyspace_name, row.keyspace_id>>)>>

\* the body of the keyspace loop
live_keyspace(entity, row, args) ==
    IF ~args.details_enable /\ is_system_keyspace(row.keyspace_id)
    THEN <<>>
    ELSE IF /\ row.keyspace_type = "ysql"
            /\ Cardinality({i \in DOMAIN entity.tables :
                              entity.tables[i].keyspace_id = row.keyspace_id}) > 0
    THEN LET colocation ==
                 IF \E i \in DOMAIN entity.tablets :
                       entity.tablets[i].table_id
                          = row.keyspace_id \o ".colocated.parent.uuid"
                 THEN "[colocated]" ELSE ""
         IN <<LiveLine(live_prefix(entity, args), "Keyspace", <<row.keyspace_id>>,
                       <<row.keyspace_type, row.keyspace_name, row.keyspace_id,
                         colocation>>)>>
            \o (IF colocation = "[colocated]"
                THEN live_tablets(entity, entity.tablets,
                                  row.keyspace_id \o ".colocated.parent.uuid",
                                  <<row.keyspace_type, row.keyspace_name>>, args)
                ELSE <<>>)
    ELSE IF row.keyspace_type # "ysql"
    THEN <<LiveLine(live_prefix(entity, args), "Keyspace", <<row.keyspace_id>>,
                    <<row.keyspace_type, row.keyspace_name, row.keyspace_id>>)>>
    ELSE <<>>

RECURSIVE live_keyspaces(_, _, _)
live_keyspaces(entity, rows, args) ==
    IF rows = <<>> THEN <<>>
    ELSE live_keyspace(entity, Head(rows), args)
         \o live_keyspaces(entity, Tail(rows), args)

\* the body of the table loop
live_table(entity, row, args) ==
    IF is_system_keyspace(row.keyspace_id) /\ ~args.details_enable
    THEN Nothing
    ELSE IF row.table_name \notin args.table_name_filter
    THEN Nothing
    ELSE IF object_oid_number(row.table_id) = -1
    THEN Printed(<<>>, <<>>, TRUE)
    ELSE IF /\ object_oid_number(row.table_id) < 16384
            /\ ~args.details_enable
            /\ find_keyspace(entity, row.keyspace_id) = None
    THEN Printed(<<>>, <<>>, TRUE)
    ELSE IF /\ object_oid_number(row.table_id) < 16384
            /\ ~args.details_enable
            /\ find_keyspace(entity, row.keyspace_id)[1].keyspace_type = "ysql"
    THEN Nothing
    ELSE LET type == find_keyspace_field(entity, row.keyspace_id, "keyspace_type")
             name == find_keyspace_field(entity, row.keyspace_id, "keyspace_name")
             colocation ==
                 IF /\ type = "ysql"
                    /\ object_oid_number(row.table_id) >= 16384
                    /\ ~\E i \in DOMAIN entity.tablets :
                           entity.tablets[i].table_id = row.table_id
                 THEN "[colocated]" ELSE ""
         IN Printed(
              <<LiveLine(live_prefix(entity, args), "Object", <<row.table_id>>,
                         <<type, name, row.table_name, row.state, row.table_id,
                           colocation>>)>>
              \o live_tablets(entity, entity.tablets, row.table_id,
                              <<type, name, row.table_name>>, args),
              <<>>, FALSE)

RECURSIVE live_tables(_, _, _, _)
live_tables(acc, entity, rows, args) ==
    IF rows = <<>> \/ acc.panicked THEN acc
    ELSE LET r == live_table(entity, Head(rows), args) IN
         live_tables(Printed(acc.lines \o r.lines, <<>>, r.panicked),
                     entity, Tail(rows), args)

\* the body of the loop over self.entities
live_entity(entity, args) ==
    IF ~args.details_enable /\ entity.hostname_port # Some(args.leader_hostname)
    THEN Nothing
    ELSE IF args.details_enable /\ entity.hostname_port = None
    THEN Printed(<<>>, <<>>, TRUE)
    ELSE IF args.details_enable /\ entity.hostname_port[1] \notin args.hostname_filter
    THEN Nothing
    ELSE live_tables(Printed(live_keyspaces(entity, entity.keyspaces, args), <<>>, FALSE),
                     entity, entity.tables, args)

\* AllEntities::print: Ok(()) unless an unwrap panics on the way
RECURSIVE live_print(_, _, _)
live_print(acc, entities, args) ==
    IF entities = <<>> \/ acc.panicked THEN acc
    ELSE LET r == live_entity(Head(entities), args) IN
         live_print(Printed(acc.lines \o r.lines, <<>>, r.panicked),
                    Tail(entities), args)

AllEntitiesPrint ==
    /\ pc = "live"
    /\ LET r == live_print(Nothing, observed.entities, observed.args) IN
         /\ output' = output \o r.lines
         /\ pc' = IF r.panicked THEN "panicked" ELSE "ok"
    /\ UNCHANGED <<observed, entitiesdiff, errors, via>>
    /\ UNCHANGED collvars

\* the arguments print_entities passes: the filters, --details-enable, the
\* leader, the dead tablet servers and the under-replicated tablets
LiveArgs ==
    {[table_name_filter |-> names, details_enable |-> details,
      leader_hostname |-> Node1, hostname_filter |-> nodes,
      dead_nodes |-> dead, under_replicated_tablets |-> under] :
        names \in {{"t", "u", "x", "pg_class", "local"}, {"t"}},
        details \in BOOLEAN,
        nodes \in {{Node1, Node2}, {Node2}},
        dead \in {<<>>, <<S2>>},
        under \in {<<>>, <<TB1>>}}

\* the aggregates: the leader's snapshot alone, or after another node's
LiveAggregates ==
    LET other == [keyspaces |-> <<KeyspaceRow(K2, "c", "ycql")>>,
                  tables |-> <<TableRow(T1, K2, "t", "RUNNING")>>,
                  tablets |-> <<TabletRow(TB2, T1, "RUNNING", None, None)>>]
    IN {<<NodeEntities(Node1, c)>> : c \in RenderContents}
       \cup {<<NodeEntities(Node2, other), NodeEntities(Node1, c)>> : c \in RenderContents}

InitLive ==
    /\ observed \in {[entities |-> a, args |-> g] : a \in LiveAggregates, g \in LiveArgs}
    /\ entitiesdiff = Engine(EntitiesDiffNew)
    /\ errors = <<>>
    /\ output = <<>>
    /\ pc = "live"
    /\ via = "none"
    /\ CollectorIdle

NextLive == AllEntitiesPrint

SpecLive == InitLive /\ [][NextLive]_vars

(***************************************************************************)
(* parse_entities on its own.  A document is text that is no JSON at all,  *)
(* or a JSON value: a string, null, an array, or an object given as the    *)
(* sequence of its (name, value) members in document order.  from_str is   *)
(* the deserializer derived for Entities: the three arrays are required,   *)
(* every identifier, name, type and state is a required string, a tablet's *)
(* leader and replicas are optional, and any mismatch fails the whole      *)
(* document.                                                               *)
(***************************************************************************)
JStr(s) == [str |-> s]
JNull == [null |-> TRUE]
JArr(a) == [arr |-> a]
JObj(members) == [obj |-> members]
NoJson(text) == [unparsable |-> text]

IsStr(v) == DOMAIN v = {"str"}
IsNull(v) == DOMAIN v = {"null"}
IsArr(v) == DOMAIN v = {"arr"}
IsObj(v) == DOMAIN v = {"obj"}

Ok(v) == [ok |-> TRUE, value |-> v]
Err == [ok |-> FALSE, value |-> <<>>]

\* the member of that name, if the object has one
Member(o, name) ==
    LET at == {i \in DOMAIN o.obj : o.obj[i][1] = name} IN
    IF at = {} THEN None
    ELSE Some(o.obj[CHOOSE i \in at : \A j \in at : i <= j][2])

\* a field of type String
de_string(o, name) ==
    LET m == Member(o, name) IN
    IF m # None /\ IsStr(m[1]) THEN Ok(m[1].str) ELSE Err

\* a field of type Option<String>
de_option_string(o, name) ==
    LET m == Member(o, name) IN
    IF m = None \/ IsNull(m[1]) THEN Ok(None)
    ELSE IF IsStr(m[1]) THEN Ok(Some(m[1].str)) ELSE Err

\* the elements of the array member of that name, none if it is no array
Elements(o, name) ==
    LET m == Member(o, name) IN
    IF m # None /\ IsArr(m[1]) THEN m[1].arr ELSE <<>>

\* the elements of an array, rs their deserializations in order
de_elements(rs) ==
    IF \A i \in DOMAIN rs : rs[i].ok
    THEN Ok([i \in DOMAIN rs |-> rs[i].value]) ELSE Err

\* a field of type Vec<T>, rs the deserializations of its elements
de_vec(o, name, rs) ==
    LET m == Member(o, name) IN
    IF m # None /\ IsArr(m[1]) THEN de_elements(rs) ELSE Err

\* a field of type Option<Vec<T>>, rs the deserializations of its elements
de_option_vec(o, name, rs) ==
    LET m == Member(o, name) IN
    IF m = None \/ IsNull(m[1]) THEN Ok(None)
    ELSE IF IsArr(m[1])
         THEN LET r == de_elements(rs) IN
              IF r.ok THEN Ok(Some(r.value)) ELSE Err
         ELSE Err

de_keyspace(v) ==
    IF ~IsObj(v) THEN Err
    ELSE LET id == de_string(v, "keyspace_id")
             name == de_string(v, "keyspace_name")
             type == de_string(v, "keyspace_type")
         IN IF id.ok /\ name.ok /\ type.ok
            THEN Ok(KeyspaceRow(id.value, name.value, type.value)) ELSE Err

de_table(v) ==
    IF ~IsObj(v) THEN Err
    ELSE LET id == de_string(v, "table_id")
             ks == de_string(v, "keyspace_id")
             name == de_string(v, "table_name")
             state == de_string(v, "state")
         IN IF id.ok /\ ks.ok /\ name.ok /\ state.ok
            THEN Ok(TableRow(id.value, ks.value, name.value, state.value)) ELSE Err

de_replica(v) ==
    IF ~IsObj(v) THEN Err
    ELSE LET type == de_string(v, "type")
             uuid == de_string(v, "server_uuid")
             addr == de_string(v, "addr")
         IN IF type.ok /\ uuid.ok /\ addr.ok
            THEN Ok(ReplicaRow(type.value, uuid.value, addr.value)) ELSE Err

de_tablet(v) ==
    IF ~IsObj(v) THEN Err
    ELSE LET table == de_string(v, "table_id")
             id == de_string(v, "tablet_id")
             state == de_string(v, "state")
             replicas == de_option_vec(v, "replicas",
                             [i \in DOMAIN Elements(v, "replicas") |->
                                 de_replica(Elements(v, "replicas")[i])])
             leader == de_option_string(v, "leader")
         IN IF table.ok /\ id.ok /\ state.ok /\ replicas.ok /\ leader.ok
            THEN Ok(TabletRow(id.value, table.value, state.value,
                              leader.value, replicas.value))
            ELSE Err

\* serde_json::from_str::<Entities>(&entities_data)
from_str(document) ==
    IF ~IsObj(document) THEN Body(FALSE, <<>>, <<>>, <<>>)
    ELSE LET keyspaces == de_vec(document, "keyspaces",
                               [i \in DOMAIN Elements(document, "keyspaces") |->
                                   de_keyspace(Elements(document, "keyspaces")[i])])
             tables == de_vec(document, "tables",
                               [i \in DOMAIN Elements(document, "tables") |->
                                   de_table(Elements(document, "tables")[i])])
             tablets == de_vec(document, "tablets",
                               [i \in DOMAIN Elements(document, "tablets") |->
                                   de_tablet(Elements(document, "tablets")[i])])
         IN IF keyspaces.ok /\ tables.ok /\ tablets.ok
            THEN Body(TRUE, keyspaces.value, tables.value, tablets.value)
            ELSE Body(FALSE, <<>>, <<>>, <<>>)

\* the documents: the JSON text of rows, as /dump-entities writes them
JKeyspace(r) ==
    JObj(<< <<"keyspace_id", JStr(r.keyspace_id)>>,
            <<"keyspace_name", JStr(r.keyspace_name)>>,
            <<"keyspace_type", JStr(r.keyspace_type)>> >>)
JTable(r) ==
    JObj(<< <<"table_id", JStr(r.table_id)>>,
            <<"keyspace_id", JStr(r.keyspace_id)>>,
            <<"table_name", JStr(r.table_name)>>,
            <<"state", JStr(r.state)>> >>)
JReplica(r) ==
    JObj(<< <<"type", JStr(r.replica_type)>>,
            <<"server_uuid", JStr(r.server_uuid)>>,
            <<"addr", JStr(r.addr)>> >>)
JTablet(r) ==
    JObj(<< <<"table_id", JStr(r.table_id)>>,
            <<"tablet_id", JStr(r.tablet_id)>>,
            <<"state", JStr(r.state)>> >>
         \o (IF r.replicas = None THEN <<>>
             ELSE << <<"replicas",
                       JArr([i \in DOMAIN r.replicas[1] |-> JReplica(r.replicas[1][i])])>> >>)
         \o (IF r.leader = None THEN <<>> ELSE << <<"leader", JStr(r.leader[1])>> >>))
JEntities(keyspaces, tables, tablets) ==
    JObj(<< <<"keyspaces", JArr(keyspaces)>>,
            <<"tables", JArr(tables)>>,
            <<"tablets", JArr(tablets)>> >>)

\* how many elements the keyspaces array of a document has at most
MaxElements == 2

DocKeyspaces ==
    LET ks == {JKeyspace(KeyspaceRow(Ksys, "system", "ycql")),
               JKeyspace(KeyspaceRow(K1, "a", "ysql")),
               JKeyspace(KeyspaceRow(K2, "c", "ycql"))}
    IN UNION {SeqsOfLen(ks, n) : n \in 0..MaxElements}

DocTables ==
    LET t1 == JTable(TableRow(T1, K1, "t", "RUNNING"))
        t2 == JTable(TableRow(Tcat, K1, "pg_class", "RUNNING"))
    IN {<<>>, <<t1>>, <<t1, t2>>, <<t2, t1>>}

DocTablets ==
    LET r1 == ReplicaRow("VOTER", S1, "yb-1.local:9100")
        r2 == ReplicaRow("VOTER", S2, "yb-2.local:9100")
        plain == JTablet(TabletRow(TB1, "sys.catalog.uuid", "RUNNING", None, None))
        led == JTablet(TabletRow(TB2, T1, "RUNNING", Some(S2), Some(<<r1, r2>>)))
        nulled == JObj(<< <<"table_id", JStr(T1)>>, <<"tablet_id", JStr(TB2)>>,
                          <<"state", JStr("CREATING")>>, <<"leader", JNull>> >>)
    IN {<<>>, <<plain>>, <<led>>, <<plain, led>>, <<led, plain>>, <<nulled>>}

\* documents that do not have the shape of Entities
DocOthers ==
    LET k == JKeyspace(KeyspaceRow(K1, "a", "ysql"))
        t == JTable(TableRow(T1, K1, "t", "RUNNING"))
        b == JTablet(TabletRow(TB1, T1, "RUNNING", None, None))
    IN {NoJson(""), NoJson("{\"keyspaces\": ["), NoJson("<html>"),
        JArr(<<k>>), JStr("keyspaces"), JNull,
        JObj(<<>>),
        JObj(<< <<"keyspaces", JArr(<<k>>)>>, <<"tables", JArr(<<t>>)>> >>),
        JObj(<< <<"keyspaces", JStr(K1)>>, <<"tables", JArr(<<t>>)>>,
                <<"tablets", JArr(<<b>>)>> >>),
        JEntities(<<k, JStr(K2)>>, <<t>>, <<b>>),
        JEntities(<<k>>,
                  <<JObj(<< <<"table_id", JStr(T1)>>, <<"keyspace_id", JStr(K1)>>,
                            <<"table_name", JStr("t")>> >>)>>,
                  <<b>>),
        JEntities(<<k>>, <<t>>,
                  <<JObj(<< <<"table_id", JStr(T1)>>, <<"tablet_id", JStr(TB1)>>,
                            <<"state", JStr("RUNNING")>>,
                            <<"leader", JArr(<<JStr(S1)>>)>> >>)>>),
        JEntities(<<k>>, <<t>>,
                  <<JObj(<< <<"table_id", JStr(T1)>>, <<"tablet_id", JStr(TB1)>>,
                            <<"state", JStr("RUNNING")>>,
                            <<"replicas",
                              JArr(<<JObj(<< <<"type", JStr("VOTER")>>,
                                             <<"server_uuid", JStr(S1)>> >>)>>)>> >>)>>)}

\* the same three arrays, written in another member order
DocReordered ==
    {JObj(<< <<"tablets", JArr(b)>>, <<"keyspaces", JArr(k)>>, <<"tables", JArr(t)>> >>) :
        k \in SeqsOfLen({JKeyspace(KeyspaceRow(K1, "a", "ysql"))}, 1),
        t \in DocTables, b \in DocTablets}

Documents ==
    {JEntities(k, t, b) : k \in DocKeyspaces, t \in DocTables, b \in DocTablets}
    \cup DocReordered \cup DocOthers

\* AllEntities::parse_entities(entities_data, host, port)
ParseEntities ==
    /\ pc = "parse"
    /\ output' = <<parse_entities(from_str(observed.document))>>
    /\ pc' = "parsed"
    /\ UNCHANGED <<observed, entitiesdiff, errors, via>>
    /\ UNCHANGED collvars

InitParse ==
    /\ observed \in {[document |-> d] : d \in Documents}
    /\ entitiesdiff = Engine(EntitiesDiffNew)
    /\ errors = <<>>
    /\ output = <<>>
    /\ pc = "parse"
    /\ via = "none"
    /\ CollectorIdle

NextParse == ParseEntities

SpecParse == InitParse /\ [][NextParse]_vars

(***************************************************************************)
(* print_coloc_leader_host: the host of the leader replica of the root     *)
(* tablet of a colocated ysql database, looked up by database name in the  *)
(* snapshot of the master leader.  The result is Ok with the line printed, *)
(* or the message of the bail! that ended the function.                    *)
(***************************************************************************)
ColocOk(host) == [ok |-> TRUE, text |-> host]
ColocErr(message) == [ok |-> FALSE, text |-> message]

\* addr.split(':').next().unwrap_or_default()
RECURSIVE split_first(_, _)
split_first(addr, i) ==
    IF i > Len(addr) THEN addr
    ELSE IF SubSeq(addr, i, i) = ":" THEN SubSeq(addr, 1, i - 1)
    ELSE split_first(addr, i + 1)

\* replicas.iter().map(host of the replica that is the leader, or "").collect()
RECURSIVE coloc_leader_host(_, _)
coloc_leader_host(replicas, leader) ==
    IF replicas = <<>> THEN ""
    ELSE (IF Head(replicas).server_uuid = leader
          THEN split_first(Head(replicas).addr, 1) ELSE "")
         \o coloc_leader_host(Tail(replicas), leader)

\* entity.tables.iter().filter(|r| r.keyspace_id == row.keyspace_id).count()
coloc_table_count(entity, row) ==
    Cardinality({i \in DOMAIN entity.tables :
                    entity.tables[i].keyspace_id = row.keyspace_id})

\* the body of the keyspace loop: None when the loop goes on to the next row
coloc_keyspace(entity, row, colocated_database) ==
    IF row.keyspace_name # colocated_database THEN None
    ELSE IF row.keyspace_type = "ysql" /\ coloc_table_count(entity, row) > 0
    THEN LET roots == {i \in DOMAIN entity.tablets :
                          entity.tablets[i].table_id
                             = row.keyspace_id \o ".colocated.parent.uuid"}
         IN IF roots # {}
            THEN LET tablet == entity.tablets[CHOOSE i \in roots : \A j \in roots : i <= j]
                     leader_host == coloc_leader_host(unwrap_or(tablet.replicas, <<>>),
                                                      unwrap_or(tablet.leader, ""))
                 IN IF leader_host # ""
                    THEN Some(ColocOk(leader_host))
                    ELSE Some(ColocErr("No tablet leader host found."))
            ELSE Some(ColocErr("Database " \o colocated_database \o " is not colocated!"))
    ELSE IF coloc_table_count(entity, row) # 0
    THEN Some(ColocErr("Database found, but not suitable for unknown reason. This should not happen."))
    ELSE None

RECURSIVE coloc_keyspaces(_, _, _)
coloc_keyspaces(entity, rows, colocated_database) ==
    IF rows = <<>> THEN None
    ELSE LET r == coloc_keyspace(entity, Head(rows), colocated_database) IN
         IF r # None THEN r
         ELSE coloc_keyspaces(entity, Tail(rows), colocated_database)

RECURSIVE coloc_entities(_, _, _)
coloc_entities(entities, leader_hostname, colocated_database) ==
    IF entities = <<>> THEN None
    ELSE LET entity == Head(entities)
             r == IF entity.hostname_port # Some(leader_hostname) THEN None
                  ELSE coloc_keyspaces(entity, entity.keyspaces, colocated_database)
         IN IF r # None THEN r
            ELSE coloc_entities(Tail(entities), leader_hostname, colocated_database)

print_coloc_leader_host(entities, leader_hostname, colocated_database) ==
    LET r == coloc_entities(entities, leader_hostname, colocated_database) IN
    IF r # None THEN r[1] ELSE ColocErr("Database name not found.")

\* allentities.print_coloc_leader_host(leader_hostname, colocated_database)?
PrintColocLeaderHost ==
    /\ pc = "coloc"
    /\ output' = <<print_coloc_leader_host(observed.entities, observed.leader,
                                           observed.database)>>
    /\ pc' = "returned"
    /\ UNCHANGED <<observed, entitiesdiff, errors, via>>
    /\ UNCHANGED collvars

\* the snapshots the lookup is run on: databases named a or b, of either
\* type, with and without tables, with and without a root tablet
ColocKeyspaces ==
    {<<KeyspaceRow(K1, "a", "ysql")>>,
     <<KeyspaceRow(K2, "a", "ycql")>>,
     <<KeyspaceRow(K2, "a", "ycql"), KeyspaceRow(K1, "a", "ysql")>>,
     <<KeyspaceRow(K1, "a", "ysql"), KeyspaceRow(K2, "a", "ycql")>>,
     <<KeyspaceRow(K2, "a", "ysql"), KeyspaceRow(K1, "a", "ysql")>>,
     <<KeyspaceRow(K2, "b", "ycql"), KeyspaceRow(K1, "a", "ysql")>>,
     <<KeyspaceRow(K1, "b", "ysql")>>}

ColocTables ==
    {<<TableRow(T1, K1, "t", "RUNNING")>>,
     <<TableRow(T1, K2, "t", "RUNNING")>>,
     <<TableRow(T1, K1, "t", "RUNNING"), TableRow(Tcat, K2, "u", "RUNNING")>>}

ColocTablets ==
    LET r1 == ReplicaRow("VOTER", S1, "yb-1.local:9100")
        r2 == ReplicaRow("VOTER", S2, "yb-2.local:9100")
        plain == TabletRow(TB1, T1, "RUNNING", Some(S1), Some(<<r1, r2>>))
    IN {<<plain>>,
        <<TabletRow(TB2, ColocatedParent(K1), "RUNNING", Some(S2), Some(<<r1, r2>>))>>,
        <<plain, TabletRow(TB2, ColocatedParent(K1), "RUNNING", Some(S1), Some(<<r1, r2>>))>>,
        <<TabletRow(TB2, ColocatedParent(K1), "RUNNING", Some(S2), Some(<<r1>>))>>,
        <<TabletRow(TB2, ColocatedParent(K1), "RUNNING", None, Some(<<r1, r2>>))>>,
        <<TabletRow(TB2, ColocatedParent(K1), "RUNNING", Some(S1), None)>>,
        <<TabletRow(TB2, ColocatedParent(K2), "RUNNING", Some(S1), Some(<<r1, r2>>))>>}

ColocAggregates ==
    LET other == [keyspaces |-> <<KeyspaceRow(K1, "a", "ysql")>>,
                  tables |-> <<TableRow(T1, K1, "t", "RUNNING")>>,
                  tablets |-> <<TabletRow(TB1, T1, "RUNNING", None, None)>>]
        contents == {[keyspaces |-> ks, tables |-> ts, tablets |-> tbs] :
                        ks \in ColocKeyspaces, ts \in ColocTables, tbs \in ColocTablets}
    IN {<<NodeEntities(Node1, c)>> : c \in contents}
       \cup {<<NodeEntities(Node2, other), NodeEntities(Node1, c)>> : c \in contents}

InitColoc ==
    /\ observed \in {[entities |-> a, leader |-> l, database |-> d] :
                        a \in ColocAggregates, l \in {Node1, Node2, ""}, d \in {"a", "b"}}
    /\ entitiesdiff = Engine(EntitiesDiffNew)
    /\ errors = <<>>
    /\ output = <<>>
    /\ pc = "coloc"
    /\ via = "none"
    /\ CollectorIdle

NextColoc == PrintColocLeaderHost

SpecColoc == InitColoc /\ [][NextColoc]_vars

(***************************************************************************)
(* The two views side by side: a run is either the diff program on two     *)
(* observations or the live view on one aggregate.                         *)
(***************************************************************************)
InitViews == InitRender \/ InitLive

NextViews == Next \/ NextLive

SpecViews == InitViews /\ [][NextViews]_vars

(***************************************************************************)
(* The merge passes as a caller of the engine may use them: the two public *)
(* readers adhoc_read_first_snapshot and adhoc_read_second_snapshot called *)
(* on one engine in any order, up to MaxCalls times.  The first pass reads *)
(* the begin observation, the second pass the end observation; via is the  *)
(* sequence of the passes called so far.                                   *)
(***************************************************************************)
MaxCalls == 2

\* self.first_snapshot(allentities, master_leader)
FirstSnapshotCall ==
    /\ pc = "passes"
    /\ Len(via) < MaxCalls
    /\ LET r == first_snapshot(Logged(entitiesdiff, <<>>),
                               observed["begin"].entities, observed["begin"].leader) IN
         /\ entitiesdiff' = Engine(r)
         /\ errors' = errors \o r.errors
    /\ via' = Append(via, "first")
    /\ UNCHANGED <<observed, output, pc>>
    /\ UNCHANGED collvars

\* self.second_snapshot(allentities, master_leader)
SecondSnapshotCall ==
    /\ pc = "passes"
    /\ Len(via) < MaxCalls
    /\ LET r == second_snapshot(Logged(entitiesdiff, <<>>),
                                observed["end"].entities, observed["end"].leader) IN
         /\ entitiesdiff' = Engine(r)
         /\ errors' = errors \o r.errors
    /\ via' = Append(via, "second")
    /\ UNCHANGED <<observed, output, pc>>
    /\ UNCHANGED collvars

\* what the leader answers in the two observations; another node answers too
PassContents ==
    LET r1 == ReplicaRow("VOTER", S1, "yb-1.local:9100")
        r2 == ReplicaRow("VOTER", S2, "yb-2.local:9100")
    IN {[keyspaces |-> ks, tables |-> ts, tablets |-> tbs] :
          ks \in {<<KeyspaceRow(K1, "a", "ysql")>>, <<KeyspaceRow(K1, "b", "ysql")>>,
                  <<KeyspaceRow(K2, "c", "ycql")>>},
          ts \in {<<TableRow(T1, K1, "t", "RUNNING")>>,
                  <<TableRow(Tcat, K1, "pg_class", "RUNNING")>>},
          tbs \in {<<TabletRow(TB1, T1, "RUNNING", Some(S1), Some(<<r1, r2>>))>>,
                   <<TabletRow(TB1, T1, "RUNNING", Some(S2), Some(<<r1>>))>>,
                   <<TabletRow(TB2, T1, "CREATING", None, None)>>}}

PassObservations ==
    LET other == [keyspaces |-> <<KeyspaceRow(K2, "d", "ycql")>>,
                  tables |-> <<TableRow(T1, K2, "v", "RUNNING")>>,
                  tablets |-> <<TabletRow(TB1, T1, "RUNNING", None, None)>>]
    IN {Observation(<<NodeEntities(Node2, other), NodeEntities(Node1, c)>>, l) :
          c \in PassContents, l \in {Node1, ""}}

InitPasses ==
    /\ observed \in [{"begin", "end"} -> PassObservations]
    /\ entitiesdiff = Engine(EntitiesDiffNew)
    /\ errors = <<>>
    /\ output = <<>>
    /\ pc = "passes"
    /\ via = <<>>
    /\ CollectorIdle

NextPasses == FirstSnapshotCall \/ SecondSnapshotCall

SpecPasses == InitPasses /\ [][NextPasses]_vars

(***************************************************************************)
(* The collector with requests that may never return.  http_get blocks     *)
(* until the node answers; Hang stands for a request that stays blocked.   *)
(* The pool's threads keep running: a step of the collector that stays     *)
(* possible is eventually taken, and a request that returns does so after  *)
(* finite time.                                                            *)
(***************************************************************************)
Hang == [hangs |-> TRUE]

Answers(i) == responses[i] # Hang

\* utility::http_get returns for pair i, then the task parses and sends
ReadHttpReturns(i) == Answers(i) /\ TaskSend(i)

InitHanging ==
    /\ responses \in [PairIds ->
                        {Hang, Body(TRUE, <<KeyspaceRow(K1, "a", "ysql")>>,
                                    <<TableRow(T1, K1, "t", "RUNNING")>>,
                                    <<TabletRow(TB1, T1, "RUNNING", None, None)>>)}]
    /\ parallel \in 1..MaxParallel
    /\ task = [i \in PairIds |-> "unspawned"]
    /\ now = 0
    /\ started = [i \in PairIds |-> 0]
    /\ channel = <<>>
    /\ allentities = <<>>
    /\ cpc = "scope"
    /\ DiffIdle

NextHanging ==
    \/ Spawn
    \/ \E i \in PairIds : TaskStart(i)
    \/ \E i \in PairIds : ReadHttpReturns(i)
    \/ ScopeEnd
    \/ Receive
    \/ ReturnAllEntities

SpecHanging ==
    /\ InitHanging
    /\ [][NextHanging]_vars
    /\ WF_vars(Spawn)
    /\ \A i \in PairIds : WF_vars(TaskStart(i))
    /\ \A i \in PairIds : WF_vars(ReadHttpReturns(i))
    /\ WF_vars(ScopeEnd)
    /\ WF_vars(Receive)
    /\ WF_vars(ReturnAllEntities)

(***************************************************************************)
(* Vocabulary of the properties: what a leader's snapshot says about each  *)
(* identifier, and what the engine holds for it.                           *)
(***************************************************************************)
Kinds == {"Database", "Object", "Tablet", "Replica"}

RECURSIVE Flatten(_)
Flatten(seqs) == IF seqs = <<>> THEN <<>> ELSE Head(seqs) \o Flatten(Tail(seqs))

Occ(key, val) == [key |-> key, val |-> val]

\* the per-node snapshots of an observation that are tagged with its leader
LeaderEntries(obs) ==
    SelectSeq(obs.entities, LAMBDA e : e.hostname_port = Some(obs.leader))

\* the rows of one kind in one per-node snapshot, in document order, each as
\* its identifier and the attribute values the engine keeps
EntityOccs(kind, e) ==
    CASE kind = "Database" ->
           [j \in 1..Len(e.keyspaces) |->
              Occ(<<e.keyspaces[j].keyspace_id>>,
                  <<e.keyspaces[j].keyspace_name, e.keyspaces[j].keyspace_type>>)]
      [] kind = "Object" ->
           [j \in 1..Len(e.tables) |->
              Occ(<<e.tables[j].table_id>>,
                  <<e.tables[j].keyspace_id, e.tables[j].table_name, e.tables[j].state>>)]
      [] kind = "Tablet" ->
           [j \in 1..Len(e.tablets) |->
              Occ(<<e.tablets[j].tablet_id>>,
                  <<e.tablets[j].table_id, e.tablets[j].state,
                    IF e.tablets[j].leader = <<>> THEN "" ELSE e.tablets[j].leader[1]>>)]
      [] kind = "Replica" ->
           Flatten([j \in 1..Len(e.tablets) |->
              LET rs == IF e.tablets[j].replicas = <<>> THEN <<>>
                        ELSE e.tablets[j].replicas[1]
              IN [r \in 1..Len(rs) |->
                    Occ(<<e.tablets[j].tablet_id, rs[r].server_uuid>>,
                        <<rs[r].addr, rs[r].replica_type>>)]])

\* all rows of one kind in the leader's snapshot of an observation
Occs(kind, obs) ==
    LET es == LeaderEntries(obs) IN
    Flatten([i \in 1..Len(es) |-> EntityOccs(kind, es[i])])

\* the rows that repeat an identifier seen earlier in the same snapshot
Repeats(occs) ==
    {i \in DOMAIN occs : \E j \in 1..(i - 1) : occs[j].key = occs[i].key}

HasRecord(kind, key) ==
    CASE kind = "Database" -> key[1] \in DOMAIN entitiesdiff.btreekeyspacediff
      [] kind = "Object" -> key[1] \in DOMAIN entitiesdiff.btreetablesdiff
      [] kind = "Tablet" -> key[1] \in DOMAIN entitiesdiff.btreetabletsdiff
      [] kind = "Replica" -> key \in DOMAIN entitiesdiff.btreereplicasdiff

RecordKeys(kind) ==
    CASE kind = "Database" -> {<<k>> : k \in DOMAIN entitiesdiff.btreekeyspacediff}
      [] kind = "Object" -> {<<k>> : k \in DOMAIN entitiesdiff.btreetablesdiff}
      [] kind = "Tablet" -> {<<k>> : k \in DOMAIN entitiesdiff.btreetabletsdiff}
      [] kind = "Replica" -> DOMAIN entitiesdiff.btreereplicasdiff

\* the first (side = 1) or second (side = 2) values of a change record
Side(kind, key, side) ==
    CASE kind = "Database" ->
           LET r == entitiesdiff.btreekeyspacediff[key[1]] IN
           IF side = 1 THEN <<r.first_keyspace_name, r.first_keyspace_type>>
           ELSE <<r.second_keyspace_name, r.second_keyspace_type>>
      [] kind = "Object" ->
           LET r == entitiesdiff.btreetablesdiff[key[1]] IN
           IF side = 1 THEN <<r.first_keyspace_id, r.first_table_name, r.first_state>>
           ELSE <<r.second_keyspace_id, r.second_table_name, r.second_state>>
      [] kind = "Tablet" ->
           LET r == entitiesdiff.btreetabletsdiff[key[1]] IN
           IF side = 1 THEN <<r.first_table_id, r.first_state, r.first_leader>>
           ELSE <<r.second_table_id, r.second_state, r.second_leader>>
      [] kind = "Replica" ->
           LET r == entitiesdiff.btreereplicasdiff[key] IN
           IF side = 1 THEN <<r.first_addr, r.first_replica_type>>
           ELSE <<r.second_addr, r.second_replica_type>>

ZeroSide(kind) ==
    CASE kind = "Database" -> <<"", "">>
      [] kind = "Object" -> <<"", "", "">>
      [] kind = "Tablet" -> <<"", "", "">>
      [] kind = "Replica" -> <<"", "">>

IsChangeLine(l) == l.sym \in {"+", "-", "="}

(***************************************************************************)
(* C1.  Idempotence: when both reads return the same aggregate and the     *)
(* same non-empty leader, print writes no Added, Removed or Modified line  *)
(* for any of the four kinds, repeated identifiers included.               *)
(***************************************************************************)
C1_Idempotence ==
    (/\ pc = "done"
     /\ observed["begin"] = observed["end"]
     /\ observed["begin"].leader # "")
    => \A i \in DOMAIN output : ~IsChangeLine(output[i])

(***************************************************************************)
(* C2.  Swap symmetry: the engine fed (begin, end) and the engine fed      *)
(* (end, begin) print lines for the same records, an Added line of one     *)
(* being a Removed line of the other, and a Modified line of one being a   *)
(* Modified line of the other with old and new exchanged.                  *)
(***************************************************************************)
SwappedEngineLines ==
    print(Engine(
        second_snapshot(
            first_snapshot(EntitiesDiffNew,
                           observed["end"].entities, observed["end"].leader),
            observed["begin"].entities, observed["begin"].leader))).lines

Mirrored(l1, l2) ==
    /\ l1.kind = l2.kind
    /\ l1.key = l2.key
    /\ \/ l1.sym = "+" /\ l2.sym = "-"
       \/ l1.sym = "-" /\ l2.sym = "+"
       \/ /\ l1.sym = "=" /\ l2.sym = "="
          /\ Len(l1.changes) = Len(l2.changes)
          /\ \A c \in DOMAIN l1.changes :
                /\ l1.changes[c].field = l2.changes[c].field
                /\ l1.changes[c].old = l2.changes[c].new
                /\ l1.changes[c].new = l2.changes[c].old

C2_SwapSymmetry ==
    (pc = "done" /\ via = "adhoc")
    => LET other == SwappedEngineLines IN
       /\ \A i \in DOMAIN output : \E j \in DOMAIN other : Mirrored(output[i], other[j])
       /\ \A j \in DOMAIN other : \E i \in DOMAIN output : Mirrored(output[i], other[j])

(***************************************************************************)
(* C3.  After snapshot_diff(begin, end) the first side of the engine holds *)
(* the rows of the begin snapshot's entry tagged with the begin leader,    *)
(* and the second side the rows of the end snapshot's entry tagged with    *)
(* the end leader: every such row has a record carrying values of that     *)
(* identifier on its side, and a side is populated only from such a row.   *)
(***************************************************************************)
SideFromOwnLeader(n, side) ==
    \A kind \in Kinds :
       LET occs == Occs(kind, observed[n]) IN
       /\ \A i \in DOMAIN occs :
             /\ HasRecord(kind, occs[i].key)
             /\ \E j \in DOMAIN occs :
                   /\ occs[j].key = occs[i].key
                   /\ Side(kind, occs[i].key, side) = occs[j].val
       /\ \A key \in RecordKeys(kind) :
             Side(kind, key, side) # ZeroSide(kind)
             => \E i \in DOMAIN occs : occs[i].key = key

C3_EachSideOwnLeader ==
    (via = "snapshot_diff" /\ pc = "second")
    => SideFromOwnLeader("begin", 1) /\ SideFromOwnLeader("end", 2)

(***************************************************************************)
(* C4.  Leader not found is a hard stop: a pass given the empty leader     *)
(* merges nothing, and when either pass was given the empty leader         *)
(* master_found is false at print, which writes the 'Master leader was     *)
(* not found' message and nothing else.                                    *)
(***************************************************************************)
C4_LeaderNotFoundHardStop ==
    /\ (pc = "first" /\ observed["begin"].leader = "")
       => \A kind \in Kinds : RecordKeys(kind) = {}
    /\ (/\ pc = "done"
        /\ via = "adhoc"
        /\ (observed["begin"].leader = "" \/ observed["end"].leader = ""))
       => /\ ~entitiesdiff.master_found
          /\ output = <<MasterNotFoundLine>>

(***************************************************************************)
(* C5.  Repeated identifiers: after both passes, each side of a record     *)
(* holds the values of the first row with that identifier in that side's   *)
(* leader snapshot, and one duplicate error was logged for every later row *)
(* with an identifier already seen in the same snapshot.                   *)
(***************************************************************************)
FirstOccurrenceKept(n, side) ==
    \A kind \in Kinds :
       LET occs == Occs(kind, observed[n]) IN
       \A i \in DOMAIN occs \ Repeats(occs) :
          /\ HasRecord(kind, occs[i].key)
          /\ Side(kind, occs[i].key, side) = occs[i].val

\* number of rows, over the four kinds, that repeat an identifier
RECURSIVE SumRepeats(_, _)
SumRepeats(kinds, obs) ==
    IF kinds = {} THEN 0
    ELSE LET k == CHOOSE k \in kinds : TRUE IN
         Cardinality(Repeats(Occs(k, obs))) + SumRepeats(kinds \ {k}, obs)

C5_FirstOccurrenceWins ==
    (pc = "second" /\ via = "adhoc")
    => /\ FirstOccurrenceKept("begin", 1)
       /\ FirstOccurrenceKept("end", 2)
       /\ Len(errors) = SumRepeats(Kinds, observed["begin"])
                        + SumRepeats(Kinds, observed["end"])

(***************************************************************************)
(* Vocabulary of the collector properties.                                 *)
(***************************************************************************)
\* the body of pair i deserializes, and into three non-empty collections
AnswersComplete(i) ==
    /\ responses[i].json
    /\ responses[i].keyspaces # <<>>
    /\ responses[i].tables # <<>>
    /\ responses[i].tablets # <<>>

\* positions of the returned vector tagged with pair i
ReturnedFor(i) ==
    {j \in DOMAIN allentities : allentities[j].hostname_port = <<HostnamePort(i)>>}

\* positions of the channel tagged with pair i
InChannelFor(i) ==
    {j \in DOMAIN channel : channel[j].hostname_port = <<HostnamePort(i)>>}

(***************************************************************************)
(* C6.  Collector filter: every per-node snapshot read_entities returns    *)
(* has non-empty keyspaces, tables and tablets, and a pair's result is in  *)
(* the returned aggregate exactly when its three collections are all       *)
(* non-empty.                                                              *)
(***************************************************************************)
C6_CollectorFilter ==
    cpc = "done"
    => /\ \A j \in DOMAIN allentities :
             /\ allentities[j].keyspaces # <<>>
             /\ allentities[j].tables # <<>>
             /\ allentities[j].tablets # <<>>
       /\ \A i \in PairIds : AnswersComplete(i) <=> ReturnedFor(i) # {}

\* read_entities has returned, having kept one result and discarded another
C6_Witness ==
    /\ cpc = "done"
    /\ \E i \in PairIds : ReturnedFor(i) # {}
    /\ \E i \in PairIds : responses[i].json /\ responses[i].tablets = <<>>
                          /\ ReturnedFor(i) = {}

(***************************************************************************)
(* C7.  Collector independence: a pair whose body does not parse sends an  *)
(* empty Entities tagged with its hostname_port and timestamp; every task  *)
(* still finishes, and every other pair with a complete answer is returned *)
(* exactly once, with the collections of its own body and its own tags.    *)
(***************************************************************************)
C7_CollectorIndependence ==
    /\ \A i \in PairIds :
          (cpc = "scope" /\ task[i] = "sent" /\ ~responses[i].json)
          => \E j \in DOMAIN channel :
                channel[j] = [hostname_port |-> <<HostnamePort(i)>>,
                              timestamp |-> <<started[i]>>,
                              keyspaces |-> <<>>, tables |-> <<>>, tablets |-> <<>>]
    /\ (cpc = "done" /\ \E i \in PairIds : ~responses[i].json)
       => /\ \A i \in PairIds : task[i] = "sent"
          /\ \A i \in PairIds :
                AnswersComplete(i)
                => /\ Cardinality(ReturnedFor(i)) = 1
                   /\ \A j \in ReturnedFor(i) :
                         /\ allentities[j].keyspaces = responses[i].keyspaces
                         /\ allentities[j].tables = responses[i].tables
                         /\ allentities[j].tablets = responses[i].tablets
                         /\ allentities[j].timestamp = <<started[i]>>

\* a pass in which one body did not parse and another pair's snapshot is returned
C7_Witness ==
    /\ cpc = "done"
    /\ \E i \in PairIds : ~responses[i].json
    /\ \E i \in PairIds : AnswersComplete(i) /\ ReturnedFor(i) # {}

(***************************************************************************)
(* C8.  Fan-out, then fan-in: one request is issued per started pair and   *)
(* never a second one, each finished task has put exactly one result on    *)
(* the channel, and the receive loop runs only when every pair's task has  *)
(* sent, so that the results received and those still queued are all of    *)
(* them.                                                                   *)
(***************************************************************************)
C8_FanOutFanIn ==
    /\ now = Cardinality({i \in PairIds : task[i] \in {"running", "sent"}})
    /\ cpc = "scope"
       => \A i \in PairIds :
             Cardinality(InChannelFor(i)) = (IF task[i] = "sent" THEN 1 ELSE 0)
    /\ cpc \in {"filter", "done"}
       => /\ \A i \in PairIds : task[i] = "sent"
          /\ \A i \in PairIds :
                Cardinality(InChannelFor(i)) + Cardinality(ReturnedFor(i))
                    = (IF AnswersComplete(i) \/ InChannelFor(i) # {} THEN 1 ELSE 0)
    /\ cpc = "done" => channel = <<>>

\* the receive loop starts: every pair's result is on the channel, more
\* pairs than pool threads
C8_Witness ==
    /\ cpc = "filter"
    /\ allentities = <<>>
    /\ Len(channel) = Len(hosts) * Len(ports)
    /\ parallel < Len(channel)

(***************************************************************************)
(* C9.  Order independence: whatever the interleaving and completion order *)
(* of the tasks, the snapshots returned are, up to their order in the      *)
(* vector and the clock value each task read, those of the pairs that      *)
(* answered completely, one for each.                                      *)
(***************************************************************************)
Untimed(e) ==
    [hostname_port |-> e.hostname_port, keyspaces |-> e.keyspaces,
     tables |-> e.tables, tablets |-> e.tablets]

ExpectedSnapshots ==
    {[hostname_port |-> <<HostnamePort(i)>>, keyspaces |-> responses[i].keyspaces,
      tables |-> responses[i].tables, tablets |-> responses[i].tablets] :
        i \in {p \in PairIds : AnswersComplete(p)}}

C9_OrderIndependence ==
    cpc = "done"
    => /\ {Untimed(allentities[j]) : j \in DOMAIN allentities} = ExpectedSnapshots
       /\ Len(allentities) = Cardinality(ExpectedSnapshots)

\* a pass whose results arrive in another order than the tasks were spawned
C9_Witness ==
    /\ cpc = "done"
    /\ Len(allentities) >= 2
    /\ allentities[1].hostname_port = <<HostnamePort(2)>>
    /\ allentities[2].hostname_port = <<HostnamePort(1)>>

(***************************************************************************)
(* C10.  A database with the same name and type on both sides: if it is    *)
(* ysql, with c1 (c2) the number of table records whose first (second)     *)
(* keyspace id is its id, nothing is printed when both counts are positive *)
(* or both zero, one Removed line when c1 > 0 and c2 = 0, and an error and *)
(* no line when c1 = 0 and c2 > 0; if it is not ysql nothing is printed,   *)
(* whatever the counts.                                                    *)
(***************************************************************************)
C10_TypeBTableCount ==
    pc = "done"
    => \A k \in DOMAIN entitiesdiff.btreekeyspacediff :
          LET r == entitiesdiff.btreekeyspacediff[k]
              tables == entitiesdiff.btreetablesdiff
              c1 == Cardinality({t \in DOMAIN tables : tables[t].first_keyspace_id = k})
              c2 == Cardinality({t \in DOMAIN tables : tables[t].second_keyspace_id = k})
              lines == {i \in DOMAIN output :
                          output[i].kind = "Database" /\ output[i].key = <<k>>}
              errs == {i \in DOMAIN errors :
                          errors[i] = <<"ysql keyspace table count was zero, now is not", k>>}
          IN (/\ r.first_keyspace_name = r.second_keyspace_name
              /\ r.first_keyspace_type = r.second_keyspace_type)
             => IF r.second_keyspace_type = "ysql"
                THEN /\ ((c1 > 0 /\ c2 > 0) \/ (c1 = 0 /\ c2 = 0))
                        => (lines = {} /\ errs = {})
                     /\ (c1 > 0 /\ c2 = 0)
                        => /\ Cardinality(lines) = 1
                           /\ \A i \in lines : output[i].sym = "-"
                           /\ errs = {}
                     /\ (c1 = 0 /\ c2 > 0)
                        => (lines = {} /\ Cardinality(errs) = 1)
                ELSE lines = {} /\ errs = {}

\* print has reported a ysql database, unchanged in name and type, as
\* Removed because its tables are gone
C10_Witness ==
    /\ pc = "done"
    /\ \E k \in DOMAIN entitiesdiff.btreekeyspacediff :
          LET r == entitiesdiff.btreekeyspacediff[k]
              tables == entitiesdiff.btreetablesdiff
          IN /\ r.first_keyspace_name = r.second_keyspace_name
             /\ r.first_keyspace_type = "ysql"
             /\ r.second_keyspace_type = "ysql"
             /\ \E t \in DOMAIN tables : tables[t].first_keyspace_id = k
             /\ \A t \in DOMAIN tables : tables[t].second_keyspace_id # k
             /\ \E i \in DOMAIN output :
                   output[i].kind = "Database" /\ output[i].key = <<k>>
                   /\ output[i].sym = "-"

(***************************************************************************)
(* Vocabulary of the rendering properties.                                 *)
(***************************************************************************)
\* print has run, to its end or to a panic
Rendered == pc \in {"done", "panicked"}

\* the lines written for the record of a kind with a key
LinesFor(kind, key) ==
    {i \in DOMAIN output : output[i].kind = kind /\ output[i].key = key}

\* the last value a line shows: the colocation marker of Database and Object lines
Marker(l) == l.shown[Len(l.shown)]

\* some tablet record names the colocation root of the keyspace on the given side
RootTabletOn(keyspace_id, tfield) ==
    \E t \in DOMAIN entitiesdiff.btreetabletsdiff :
        entitiesdiff.btreetabletsdiff[t][tfield] = keyspace_id \o ".colocated.parent.uuid"

(***************************************************************************)
(* C11.  The [colocated] marker of a database line is computed on the side *)
(* the line is about: an Added database carries it exactly when its second *)
(* type is ysql and a tablet record has the database's colocation root as  *)
(* second_table_id; a Removed database (a ysql database whose table count  *)
(* went to zero included) exactly when its first type is ysql and a tablet *)
(* record has the root as first_table_id.                                  *)
(***************************************************************************)
C11_ColocationOnRelevantSide ==
    Rendered
    => \A k \in DOMAIN entitiesdiff.btreekeyspacediff :
          LET r == entitiesdiff.btreekeyspacediff[k] IN
          /\ (r.first_keyspace_name = "" /\ r.first_keyspace_type = ""
              /\ entitiesdiff.master_found)
             => \E i \in LinesFor("Database", <<k>>) : output[i].sym = "+"
          /\ \A i \in LinesFor("Database", <<k>>) :
                /\ output[i].sym = "+"
                   => (Marker(output[i]) = "[colocated]"
                       <=> (r.second_keyspace_type = "ysql"
                            /\ RootTabletOn(k, "second_table_id")))
                /\ output[i].sym = "-"
                   => (Marker(output[i]) = "[colocated]"
                       <=> (r.first_keyspace_type = "ysql"
                            /\ RootTabletOn(k, "first_table_id")))
                /\ Marker(output[i]) \in {"[colocated]", ""}

\* a Removed ysql database printed without the marker although the other
\* side has its root tablet
C11_Witness ==
    /\ pc = "done"
    /\ \E k \in DOMAIN entitiesdiff.btreekeyspacediff :
          /\ entitiesdiff.btreekeyspacediff[k].first_keyspace_type = "ysql"
          /\ RootTabletOn(k, "second_table_id")
          /\ ~RootTabletOn(k, "first_table_id")
          /\ \E i \in LinesFor("Database", <<k>>) :
                output[i].sym = "-" /\ Marker(output[i]) = ""

(***************************************************************************)
(* The number an identifier encodes, read off the digits one by one.       *)
(***************************************************************************)
\* the value of a hexadecimal digit; 16 for any other character
DigitValue(c) ==
    CASE c = "0" -> 0 [] c = "1" -> 1 [] c = "2" -> 2 [] c = "3" -> 3
      [] c = "4" -> 4 [] c = "5" -> 5 [] c = "6" -> 6 [] c = "7" -> 7
      [] c = "8" -> 8 [] c = "9" -> 9
      [] c \in {"a", "A"} -> 10 [] c \in {"b", "B"} -> 11 [] c \in {"c", "C"} -> 12
      [] c \in {"d", "D"} -> 13 [] c \in {"e", "E"} -> 14 [] c \in {"f", "F"} -> 15
      [] OTHER -> 16

\* every character of the string is a hexadecimal digit
AllHex(str) == \A i \in 1..Len(str) : DigitValue(SubSeq(str, i, i)) < 16

RECURSIVE Power16(_)
Power16(n) == IF n = 0 THEN 1 ELSE 16 * Power16(n - 1)

\* the base-16 value of the first n characters of a string of digits
RECURSIVE ValueOfDigits(_, _)
ValueOfDigits(str, n) ==
    IF n = 0 THEN 0
    ELSE ValueOfDigits(str, n - 1)
         + DigitValue(SubSeq(str, n, n)) * Power16(Len(str) - n)

\* the object number of an identifier: its last 8 of 32 characters, else 0
ObjectNumber(id) ==
    IF Len(id) = 32
    THEN ValueOfDigits(SubSeq(id, 25, 32), 8)
    ELSE 0

(***************************************************************************)
(* C12.  Catalog suppression: when print completes, an Added table record  *)
(* has no line exactly when its object number is below 16384 and the       *)
(* keyspace record of its second_keyspace_id exists with second type ysql; *)
(* a Removed table record has no line exactly when its object number is    *)
(* below 16384 and the keyspace record of its first_keyspace_id exists     *)
(* with first type ysql.                                                   *)
(***************************************************************************)
C12_CatalogSuppression ==
    pc = "done" /\ entitiesdiff.master_found
    => \A t \in DOMAIN entitiesdiff.btreetablesdiff :
          LET r == entitiesdiff.btreetablesdiff[t]
              keyspaces == entitiesdiff.btreekeyspacediff
              added == r.first_table_name = "" /\ r.first_state = ""
                       /\ r.first_keyspace_id = ""
              removed == r.second_table_name = "" /\ r.second_state = ""
                         /\ r.second_keyspace_id = ""
              lines == LinesFor("Object", <<t>>)
          IN /\ added
                => /\ lines = {}
                      <=> /\ ObjectNumber(t) < 16384
                          /\ r.second_keyspace_id \in DOMAIN keyspaces
                          /\ keyspaces[r.second_keyspace_id].second_keyspace_type = "ysql"
                   /\ \A i \in lines : output[i].sym = "+"
             /\ removed
                => /\ lines = {}
                      <=> /\ ObjectNumber(t) < 16384
                          /\ r.first_keyspace_id \in DOMAIN keyspaces
                          /\ keyspaces[r.first_keyspace_id].first_keyspace_type = "ysql"
                   /\ \A i \in lines : output[i].sym = "-"

\* print completed and left out an Added catalog table of a ysql database
C12_Witness ==
    /\ pc = "done"
    /\ \E t \in DOMAIN entitiesdiff.btreetablesdiff :
          LET r == entitiesdiff.btreetablesdiff[t] IN
          /\ r.first_table_name = "" /\ r.first_state = "" /\ r.first_keyspace_id = ""
          /\ ObjectNumber(t) < 16384
          /\ r.second_keyspace_id \in DOMAIN entitiesdiff.btreekeyspacediff
          /\ entitiesdiff.btreekeyspacediff[r.second_keyspace_id].second_keyspace_type = "ysql"
          /\ LinesFor("Object", <<t>>) = {}

(***************************************************************************)
(* Vocabulary of classification: a side of a record is populated when not  *)
(* all of its fields are empty.                                            *)
(***************************************************************************)
Populated(kind, key, side) == Side(kind, key, side) # ZeroSide(kind)

ModifiedLines(kind, key) ==
    {i \in LinesFor(kind, key) : output[i].sym = "="}

(***************************************************************************)
(* C13.  Modified uses only the tracked fields: when print completes, a    *)
(* record populated on both sides has a '=' line exactly when it differs   *)
(* in name (databases), name or state (tables), state or leader (tablets), *)
(* address or type (replicas); and every '=' line shows at least one       *)
(* old->new pair, each with old different from new.                        *)
(***************************************************************************)
TrackedDiffers(kind, key) ==
    CASE kind = "Database" ->
           LET r == entitiesdiff.btreekeyspacediff[key[1]] IN
           r.first_keyspace_name # r.second_keyspace_name
      [] kind = "Object" ->
           LET r == entitiesdiff.btreetablesdiff[key[1]] IN
           r.first_table_name # r.second_table_name \/ r.first_state # r.second_state
      [] kind = "Tablet" ->
           LET r == entitiesdiff.btreetabletsdiff[key[1]] IN
           r.first_state # r.second_state \/ r.first_leader # r.second_leader
      [] kind = "Replica" ->
           LET r == entitiesdiff.btreereplicasdiff[key] IN
           r.first_addr # r.second_addr \/ r.first_replica_type # r.second_replica_type

C13_ModifiedOnlyTrackedFields ==
    pc = "done" /\ entitiesdiff.master_found
    => /\ \A kind \in Kinds : \A key \in RecordKeys(kind) :
             (Populated(kind, key, 1) /\ Populated(kind, key, 2))
             => (ModifiedLines(kind, key) # {} <=> TrackedDiffers(kind, key))
       /\ \A i \in DOMAIN output :
             output[i].sym = "="
             => /\ output[i].changes # <<>>
                /\ \A c \in DOMAIN output[i].changes :
                      output[i].changes[c].old # output[i].changes[c].new

(***************************************************************************)
(* C14.  System databases are hidden in the diff view too: print writes no *)
(* Database line for one of the five system identifiers, and no Object     *)
(* line for a table whose keyspace id, on either side, is one of them.     *)
(***************************************************************************)
C14_SystemDatabasesHidden ==
    Rendered
    => \A i \in DOMAIN output :
          /\ output[i].kind = "Database" => ~is_system_keyspace(output[i].key[1])
          /\ output[i].kind = "Object"
             => LET r == entitiesdiff.btreetablesdiff[output[i].key[1]] IN
                /\ ~is_system_keyspace(r.first_keyspace_id)
                /\ ~is_system_keyspace(r.second_keyspace_id)

(***************************************************************************)
(* The order of identifiers: strings compare byte by byte, as String's Ord *)
(* does; the characters identifiers are made of, in ASCII order.           *)
(***************************************************************************)
AsciiOrder == ".0123456789:ABCDEFGHIJKLMNOPQRSTUVWXYZ_abcdefghijklmnopqrstuvwxyz"

CharRank(c) == CHOOSE i \in 1..Len(AsciiOrder) : SubSeq(AsciiOrder, i, i) = c

RECURSIVE StrLess(_, _)
StrLess(a, b) ==
    IF Len(b) = 0 THEN FALSE
    ELSE IF Len(a) = 0 THEN TRUE
    ELSE LET x == CharRank(SubSeq(a, 1, 1))
             y == CharRank(SubSeq(b, 1, 1))
         IN IF x # y THEN x < y
            ELSE StrLess(SubSeq(a, 2, Len(a)), SubSeq(b, 2, Len(b)))

\* map keys are tuples of one or two identifiers
RECURSIVE KeyLess(_, _)
KeyLess(k1, k2) ==
    IF k1 = <<>> \/ k2 = <<>> THEN k1 = <<>> /\ k2 # <<>>
    ELSE IF Head(k1) # Head(k2) THEN StrLess(Head(k1), Head(k2))
    ELSE KeyLess(Tail(k1), Tail(k2))

KindRank(kind) ==
    CASE kind = "Database" -> 1 [] kind = "Object" -> 2
      [] kind = "Tablet" -> 3 [] kind = "Replica" -> 4

(***************************************************************************)
(* The class of a record: Unchanged when all its fields are equal on both  *)
(* sides, Added when the first side is empty, Removed when the second is,  *)
(* Modified otherwise; a ysql database equal in name and type is Removed   *)
(* when its tables went from some to none, and has its rendering skipped   *)
(* when they went from none to some; a catalog table of a ysql database is *)
(* suppressed when Added or Removed.  "none" stands for no line.           *)
(***************************************************************************)
CatalogOf(table_id, keyspace_id, tfield) ==
    /\ ObjectNumber(table_id) < 16384
    /\ keyspace_id \in DOMAIN entitiesdiff.btreekeyspacediff
    /\ entitiesdiff.btreekeyspacediff[keyspace_id][tfield] = "ysql"

ExpectedSym(kind, key) ==
    IF Side(kind, key, 1) = Side(kind, key, 2)
    THEN IF kind = "Database" /\ Side(kind, key, 2)[2] = "ysql"
         THEN LET tables == entitiesdiff.btreetablesdiff
                  c1 == Cardinality({t \in DOMAIN tables :
                                        tables[t].first_keyspace_id = key[1]})
                  c2 == Cardinality({t \in DOMAIN tables :
                                        tables[t].second_keyspace_id = key[1]})
              IN IF c1 > 0 /\ c2 = 0 THEN "-" ELSE "none"
         ELSE "none"
    ELSE IF ~Populated(kind, key, 1)
    THEN IF kind = "Object"
            /\ CatalogOf(key[1], entitiesdiff.btreetablesdiff[key[1]].second_keyspace_id,
                         "second_keyspace_type")
         THEN "none" ELSE "+"
    ELSE IF ~Populated(kind, key, 2)
    THEN IF kind = "Object"
            /\ CatalogOf(key[1], entitiesdiff.btreetablesdiff[key[1]].first_keyspace_id,
                         "first_keyspace_type")
         THEN "none" ELSE "-"
    ELSE "="

(***************************************************************************)
(* C15.  Output order of the diff view: when print completes, its lines    *)
(* are the database lines, then the table lines, then the tablet lines,    *)
(* then the replica lines; within a kind the keys strictly ascend; a       *)
(* record that is neither Unchanged nor suppressed has exactly one line,   *)
(* prefixed + (Added), - (Removed) or = (Modified), and an Unchanged       *)
(* record has none.                                                        *)
(***************************************************************************)
C15_OutputOrder ==
    pc = "done" /\ entitiesdiff.master_found
    => /\ \A i \in DOMAIN output : \A j \in DOMAIN output :
             i < j
             => /\ KindRank(output[i].kind) <= KindRank(output[j].kind)
                /\ output[i].kind = output[j].kind
                   => KeyLess(output[i].key, output[j].key)
       /\ \A kind \in Kinds : \A key \in RecordKeys(kind) :
             IF ExpectedSym(kind, key) = "none"
             THEN LinesFor(kind, key) = {}
             ELSE /\ Cardinality(LinesFor(kind, key)) = 1
                  /\ \A i \in LinesFor(kind, key) : output[i].sym = ExpectedSym(kind, key)
       /\ \A i \in DOMAIN output : HasRecord(output[i].kind, output[i].key)

\* a completed print with lines of all four kinds, two of them of one kind
C15_Witness ==
    /\ pc = "done"
    /\ \A kind \in Kinds : \E i \in DOMAIN output : output[i].kind = kind
    /\ \E i \in DOMAIN output : \E j \in DOMAIN output :
          i < j /\ output[i].kind = output[j].kind /\ output[i].kind = "Object"

(***************************************************************************)
(* C16.  Tablet leader change: when print completes, a tablet populated on *)
(* both sides whose first_leader differs from its second_leader has one    *)
(* '=' line, showing for the leader the pair old->new where old is the     *)
(* first_addr of the replica record (tablet_id, first_leader) and new the  *)
(* second_addr of the replica record (tablet_id, second_leader), each the  *)
(* empty string when there is no such record or it has no address on that  *)
(* side.                                                                   *)
(***************************************************************************)
C16_LeaderChange ==
    pc = "done" /\ entitiesdiff.master_found
    => \A t \in DOMAIN entitiesdiff.btreetabletsdiff :
          LET r == entitiesdiff.btreetabletsdiff[t]
              replicas == entitiesdiff.btreereplicasdiff
              old == IF <<t, r.first_leader>> \in DOMAIN replicas
                     THEN replicas[<<t, r.first_leader>>].first_addr ELSE ""
              new == IF <<t, r.second_leader>> \in DOMAIN replicas
                     THEN replicas[<<t, r.second_leader>>].second_addr ELSE ""
          IN (/\ Populated("Tablet", <<t>>, 1)
              /\ Populated("Tablet", <<t>>, 2)
              /\ r.first_leader # r.second_leader)
             => /\ Cardinality(LinesFor("Tablet", <<t>>)) = 1
                /\ \A i \in LinesFor("Tablet", <<t>>) :
                      /\ output[i].sym = "="
                      /\ Cardinality({c \in DOMAIN output[i].changes :
                                        output[i].changes[c].field = "leader"}) = 1
                      /\ \A c \in DOMAIN output[i].changes :
                            output[i].changes[c].field = "leader"
                            => /\ output[i].changes[c].old = old
                               /\ output[i].changes[c].new = new

\* a completed print that shows a leader moving between two known addresses
C16_Witness ==
    /\ pc = "done"
    /\ \E i \in DOMAIN output :
          /\ output[i].kind = "Tablet" /\ output[i].sym = "="
          /\ \E c \in DOMAIN output[i].changes :
                /\ output[i].changes[c].field = "leader"
                /\ output[i].changes[c].old # ""
                /\ output[i].changes[c].new # ""
                /\ output[i].changes[c].old # output[i].changes[c].new

(***************************************************************************)
(* C17.  Value of the decoding: object_oid_number returns 0 for every      *)
(* string whose length is not 32, and for a string of 32 hexadecimal       *)
(* characters the base-16 value of its last 8; the callers' catalog test   *)
(* is true exactly when that value is below 16384.                         *)
(***************************************************************************)
C17_ObjectNumberValue ==
    LET id == observed.oid
        covered == Len(id) # 32 \/ AllHex(id)
    IN /\ (pc = "decoded" /\ Len(id) # 32) => output[1].value = 0
       /\ (pc = "decoded" /\ Len(id) = 32 /\ AllHex(id))
          => output[1].value = ValueOfDigits(SubSeq(id, 25, 32), 8)
       /\ (pc = "decoded" /\ covered)
          => (output[1].below_16384 <=> ObjectNumber(id) < 16384)
       /\ (pc = "panicked" => ~covered)

\* a 32-character hexadecimal id was decoded to a number that is not a
\* catalog number
C17_Witness ==
    /\ pc = "decoded"
    /\ Len(observed.oid) = 32
    /\ AllHex(observed.oid)
    /\ output[1].value >= 16384
    /\ ~output[1].below_16384

(***************************************************************************)
(* C18.  The decoding never fails: for every string, a 32-character one    *)
(* with a character that is no hexadecimal digit included, the call        *)
(* returns (0 for such a malformed string) and the view goes on.           *)
(***************************************************************************)
C18_DecodingNeverFails ==
    /\ pc # "panicked"
    /\ (pc = "decoded" /\ Len(observed.oid) = 32 /\ ~AllHex(observed.oid))
       => output[1].value = 0

(***************************************************************************)
(* C19.  The live view never aborts: with details disabled, print returns  *)
(* Ok for every aggregate, and a table whose keyspace_id matches no        *)
(* keyspace of the snapshot is printed with empty type and name.           *)
(***************************************************************************)
C19_LiveViewNeverAborts ==
    ~observed.args.details_enable
    => /\ pc # "panicked"
       /\ pc = "ok"
          => \A e \in DOMAIN observed.entities :
                LET entity == observed.entities[e] IN
                \A j \in DOMAIN entity.tables :
                   LET row == entity.tables[j]
                       lines == {i \in DOMAIN output :
                                   output[i].kind = "Object"
                                   /\ output[i].key = <<row.table_id>>}
                   IN (/\ entity.hostname_port = <<observed.args.leader_hostname>>
                       /\ \A k \in DOMAIN entity.keyspaces :
                             entity.keyspaces[k].keyspace_id # row.keyspace_id
                       /\ row.table_name \in observed.args.table_name_filter
                       /\ ~is_system_keyspace(row.keyspace_id))
                      => /\ lines # {}
                         /\ \A i \in lines :
                               output[i].shown[1] = "" /\ output[i].shown[2] = ""

(***************************************************************************)
(* C20.  Dangling references are tolerated by the diff view: print fails   *)
(* only on a malformed table_id, never on a lookup; and when it completes, *)
(* a table record whose keyspace id has no keyspace record, and a tablet   *)
(* or replica record whose table id has no table record, still has its one *)
(* line, prefixed as its class requires, showing empty strings for the     *)
(* type, name and table name that could not be looked up in the engine's   *)
(* maps.                                                                   *)
(***************************************************************************)
\* the line of a record of a class that has one, with the values at the
\* positions from..to all empty
OneLineBlank(kind, key, from, to) ==
    /\ Cardinality(LinesFor(kind, key)) = 1
    /\ \A i \in LinesFor(kind, key) :
          /\ output[i].sym = ExpectedSym(kind, key)
          /\ \A p \in from..to : output[i].shown[p] = ""

C20_DanglingReferences ==
    /\ (pc = "panicked")
       => \E t \in DOMAIN entitiesdiff.btreetablesdiff : Len(t) = 32 /\ ~AllHex(t)
    /\ (pc = "done" /\ entitiesdiff.master_found)
       => LET keyspaces == entitiesdiff.btreekeyspacediff
              tables == entitiesdiff.btreetablesdiff
              tablets == entitiesdiff.btreetabletsdiff
              replicas == entitiesdiff.btreereplicasdiff
          IN /\ \A t \in DOMAIN tables :
                   LET sym == ExpectedSym("Object", <<t>>)
                       keyspace_id == IF sym = "+" THEN tables[t].second_keyspace_id
                                      ELSE tables[t].first_keyspace_id
                   IN (sym # "none" /\ keyspace_id \notin DOMAIN keyspaces)
                      => OneLineBlank("Object", <<t>>, 1, 2)
             /\ \A b \in DOMAIN tablets :
                   LET sym == ExpectedSym("Tablet", <<b>>)
                       table_id == IF sym = "-" THEN tablets[b].first_table_id
                                   ELSE tablets[b].second_table_id
                   IN (sym # "none" /\ table_id \notin DOMAIN tables)
                      => OneLineBlank("Tablet", <<b>>, 1, 3)
             /\ \A k \in DOMAIN replicas :
                   LET sym == ExpectedSym("Replica", k)
                       shift == IF sym = "=" /\ replicas[k].first_addr # replicas[k].second_addr
                                THEN 0 ELSE 1
                       unresolved ==
                           \/ k[1] \notin DOMAIN tablets
                           \/ (IF sym = "-" THEN tablets[k[1]].first_table_id
                               ELSE tablets[k[1]].second_table_id) \notin DOMAIN tables
                   IN (sym # "none" /\ unresolved)
                      => OneLineBlank("Replica", k, shift + 1, shift + 3)

\* a completed print with the line of a table whose keyspace has no record
\* and the line of a tablet whose table has no record
C20_Witness ==
    /\ pc = "done"
    /\ \E i \in DOMAIN output :
          /\ output[i].kind = "Object"
          /\ LET r == entitiesdiff.btreetablesdiff[output[i].key[1]] IN
             (IF output[i].sym = "+" THEN r.second_keyspace_id ELSE r.first_keyspace_id)
                \notin DOMAIN entitiesdiff.btreekeyspacediff
    /\ \E i \in DOMAIN output :
          /\ output[i].kind = "Tablet"
          /\ LET r == entitiesdiff.btreetabletsdiff[output[i].key[1]] IN
             (IF output[i].sym = "-" THEN r.first_table_id ELSE r.second_table_id)
                \notin DOMAIN entitiesdiff.btreetablesdiff

(***************************************************************************)
(* C21.  Parsing is total and order-preserving: parse_entities returns an  *)
(* Entities value for every document; for a document of the wire format    *)
(* the three collections hold the document's array elements in document    *)
(* order, a tablet's leader and replicas being absent exactly when the     *)
(* document omits them; for any other document the three collections are   *)
(* empty.                                                                  *)
(***************************************************************************)
Names(o) == {o.obj[i][1] : i \in DOMAIN o.obj}
ValueOf(o, name) == o.obj[CHOOSE i \in DOMAIN o.obj : o.obj[i][1] = name][2]
HasStrings(v, names) ==
    /\ IsObj(v)
    /\ \A n \in names : n \in Names(v) /\ IsStr(ValueOf(v, n))
Omits(v, name) == name \notin Names(v) \/ IsNull(ValueOf(v, name))

WellFormedReplica(v) == HasStrings(v, {"type", "server_uuid", "addr"})
WellFormedTablet(v) ==
    /\ HasStrings(v, {"table_id", "tablet_id", "state"})
    /\ Omits(v, "leader") \/ IsStr(ValueOf(v, "leader"))
    /\ \/ Omits(v, "replicas")
       \/ /\ IsArr(ValueOf(v, "replicas"))
          /\ \A i \in DOMAIN ValueOf(v, "replicas").arr :
                WellFormedReplica(ValueOf(v, "replicas").arr[i])
WellFormed(d) ==
    /\ IsObj(d)
    /\ \A n \in {"keyspaces", "tables", "tablets"} : n \in Names(d) /\ IsArr(ValueOf(d, n))
    /\ \A i \in DOMAIN ValueOf(d, "keyspaces").arr :
          HasStrings(ValueOf(d, "keyspaces").arr[i],
                     {"keyspace_id", "keyspace_name", "keyspace_type"})
    /\ \A i \in DOMAIN ValueOf(d, "tables").arr :
          HasStrings(ValueOf(d, "tables").arr[i],
                     {"table_id", "keyspace_id", "table_name", "state"})
    /\ \A i \in DOMAIN ValueOf(d, "tablets").arr :
          WellFormedTablet(ValueOf(d, "tablets").arr[i])

\* the i-th element of the collection says what the i-th element of the
\* document's array says
SameStrings(row, v, fields) ==
    \A f \in DOMAIN fields : row[f] = ValueOf(v, fields[f]).str
MirrorsDocument(e, d) ==
    LET ks == ValueOf(d, "keyspaces").arr
        ts == ValueOf(d, "tables").arr
        bs == ValueOf(d, "tablets").arr
    IN /\ Len(e.keyspaces) = Len(ks) /\ Len(e.tables) = Len(ts) /\ Len(e.tablets) = Len(bs)
       /\ \A i \in DOMAIN ks :
             SameStrings(e.keyspaces[i], ks[i],
                         [keyspace_id |-> "keyspace_id", keyspace_name |-> "keyspace_name",
                          keyspace_type |-> "keyspace_type"])
       /\ \A i \in DOMAIN ts :
             SameStrings(e.tables[i], ts[i],
                         [table_id |-> "table_id", keyspace_id |-> "keyspace_id",
                          table_name |-> "table_name", state |-> "state"])
       /\ \A i \in DOMAIN bs :
             /\ SameStrings(e.tablets[i], bs[i],
                            [table_id |-> "table_id", tablet_id |-> "tablet_id",
                             state |-> "state"])
             /\ IF Omits(bs[i], "leader") THEN e.tablets[i].leader = None
                ELSE e.tablets[i].leader = Some(ValueOf(bs[i], "leader").str)
             /\ IF Omits(bs[i], "replicas") THEN e.tablets[i].replicas = None
                ELSE LET rs == ValueOf(bs[i], "replicas").arr IN
                     /\ Len(e.tablets[i].replicas) = 1
                     /\ Len(e.tablets[i].replicas[1]) = Len(rs)
                     /\ \A j \in DOMAIN rs :
                           SameStrings(e.tablets[i].replicas[1][j], rs[j],
                                       [replica_type |-> "type",
                                        server_uuid |-> "server_uuid", addr |-> "addr"])

C21_ParsingTotal ==
    (pc = "parsed") =>
       /\ Len(output) = 1
       /\ DOMAIN output[1] = DOMAIN EntitiesNew
       /\ IF WellFormed(observed.document)
          THEN MirrorsDocument(output[1], observed.document)
          ELSE /\ output[1].keyspaces = <<>>
               /\ output[1].tables = <<>>
               /\ output[1].tablets = <<>>

\* a document of the wire format was parsed: two different keyspaces, and
\* two tablets of which only the second has a leader and replicas
C21_Witness ==
    /\ pc = "parsed"
    /\ WellFormed(observed.document)
    /\ Len(output[1].keyspaces) = 2
    /\ output[1].keyspaces[1].keyspace_id # output[1].keyspaces[2].keyspace_id
    /\ Len(output[1].tablets) = 2
    /\ output[1].tablets[1].leader = None /\ output[1].tablets[1].replicas = None
    /\ output[1].tablets[2].leader # None /\ output[1].tablets[2].replicas # None

(***************************************************************************)
(* C22.  Change-set growth: no step of the program removes a key from any  *)
(* of the four maps; and after first_snapshot(A, LA) and then              *)
(* second_snapshot(B, LB) with both leaders non-empty, the keys of each    *)
(* map are exactly the identifiers of that kind in the entries of A tagged *)
(* LA together with those in the entries of B tagged LB.                   *)
(***************************************************************************)
\* the leader handed to the pass that reads observation n: snapshot_diff
\* hands the begin leader to both passes
LeaderPassed(n) ==
    IF via = "snapshot_diff" THEN observed["begin"].leader ELSE observed[n].leader

\* the identifiers of one kind in the entries of observation n that the
\* pass selects
IdentifiersRead(kind, n) ==
    LET occs == Occs(kind, Observation(observed[n].entities, LeaderPassed(n)))
    IN {occs[i].key : i \in DOMAIN occs}

KeysAreUnion ==
    (/\ pc = "second"
     /\ LeaderPassed("begin") # ""
     /\ LeaderPassed("end") # "")
    => \A kind \in Kinds :
          RecordKeys(kind) = IdentifiersRead(kind, "begin") \cup IdentifiersRead(kind, "end")

KeysKept == \A kind \in Kinds : RecordKeys(kind) \subseteq RecordKeys(kind)'

C22_ChangeSetGrowth == [][KeysKept]_vars /\ []KeysAreUnion

\* both passes ran, and a keyspace read only by the first pass and a
\* keyspace read only by the second both have their record
C22_Witness ==
    /\ pc = "second"
    /\ LeaderPassed("begin") # "" /\ LeaderPassed("end") # ""
    /\ \E a \in IdentifiersRead("Database", "begin") \ IdentifiersRead("Database", "end") :
          HasRecord("Database", a)
    /\ \E b \in IdentifiersRead("Database", "end") \ IdentifiersRead("Database", "begin") :
          HasRecord("Database", b)

(***************************************************************************)
(* C23.  Dropped databases in the live view: for every per-node snapshot   *)
(* the view prints, a ysql keyspace has its Keyspace line exactly when a   *)
(* table of the same snapshot has its id as keyspace_id, and a keyspace of *)
(* another type always has its line; in both cases unless details are      *)
(* disabled and the keyspace is a system keyspace.                         *)
(***************************************************************************)
\* the per-node snapshots the live view does not skip
LiveSelected(e) ==
    IF observed.args.details_enable
    THEN e.hostname_port # None /\ e.hostname_port[1] \in observed.args.hostname_filter
    ELSE e.hostname_port = Some(observed.args.leader_hostname)

\* the Keyspace lines printed for keyspace row k of per-node snapshot e
LiveKeyspaceLines(e, k) ==
    {i \in DOMAIN output :
        /\ output[i].kind = "Keyspace"
        /\ output[i].key = <<k.keyspace_id>>
        /\ output[i].prefix = (IF observed.args.details_enable
                               THEN e.hostname_port[1] ELSE "")
        /\ SubSeq(output[i].shown, 1, 3)
              = <<k.keyspace_type, k.keyspace_name, k.keyspace_id>>}

LiveHasTables(e, k) ==
    \E t \in DOMAIN e.tables : e.tables[t].keyspace_id = k.keyspace_id

SystemHidden(k) ==
    ~observed.args.details_enable
    /\ k.keyspace_id \in {"00000000000000000000000000000001",
                          "00000000000000000000000000000002",
                          "00000000000000000000000000000003",
                          "00000001000030008000000000000000",
                          "000033e5000030008000000000000000"}

\* a run that ends in a panic has still printed the keyspaces of the first
\* snapshot it did not skip
C23_DroppedDatabaseLive ==
    (pc \in {"ok", "panicked"}) =>
       \A n \in DOMAIN observed.entities :
          LET e == observed.entities[n] IN
          (/\ LiveSelected(e)
           /\ pc = "panicked" => \A m \in 1..(n - 1) : ~LiveSelected(observed.entities[m]))
          =>
             \A j \in DOMAIN e.keyspaces :
                LET k == e.keyspaces[j]
                    shown == /\ ~SystemHidden(k)
                             /\ (k.keyspace_type = "ysql" => LiveHasTables(e, k))
                IN Cardinality(LiveKeyspaceLines(e, k)) = (IF shown THEN 1 ELSE 0)

\* the view has printed a snapshot holding a ysql keyspace without tables,
\* which has no line, and one holding a ycql keyspace without tables, which
\* has its line
C23_Witness ==
    /\ pc = "ok"
    /\ \E n \in DOMAIN observed.entities :
          LET e == observed.entities[n] IN
          /\ LiveSelected(e)
          /\ \E j \in DOMAIN e.keyspaces :
                /\ e.keyspaces[j].keyspace_type = "ysql"
                /\ ~LiveHasTables(e, e.keyspaces[j])
                /\ LiveKeyspaceLines(e, e.keyspaces[j]) = {}
    /\ \E n \in DOMAIN observed.entities :
          LET e == observed.entities[n] IN
          /\ LiveSelected(e)
          /\ \E j \in DOMAIN e.keyspaces :
                /\ e.keyspaces[j].keyspace_type = "ycql"
                /\ ~LiveHasTables(e, e.keyspaces[j])
                /\ LiveKeyspaceLines(e, e.keyspaces[j]) # {}

(***************************************************************************)
(* C24.  Outcomes of print_coloc_leader_host(leader, name).  The database  *)
(* meant is the first ysql keyspace called name in the leader's snapshot   *)
(* that has a table (a ysql keyspace of that name without tables is        *)
(* dropped and skipped).  The function returns Ok only when that database  *)
(* has a root tablet with a replica on the tablet's leader; it fails with  *)
(* 'is not colocated' when the database has no root tablet, with 'No       *)
(* tablet leader host found' when the root tablet has no replica on its    *)
(* leader, and with 'Database name not found' when no keyspace called name *)
(* has a table.                                                            *)
(***************************************************************************)
\* positions of the per-node snapshots tagged with the leader
ColocLeaderEntities ==
    {n \in DOMAIN observed.entities :
        observed.entities[n].hostname_port = Some(observed.leader)}

ColocNamed(e, j) ==
    /\ e.keyspaces[j].keyspace_name = observed.database
    /\ \E t \in DOMAIN e.tables : e.tables[t].keyspace_id = e.keyspaces[j].keyspace_id

\* <<n, j>>: keyspace j of snapshot n is a ysql keyspace of that name with a
\* table, and none comes before it
ColocDatabases ==
    LET live == {p \in {<<n, j>> : n \in ColocLeaderEntities, j \in 1..MaxRows} :
                    /\ p[2] \in DOMAIN observed.entities[p[1]].keyspaces
                    /\ ColocNamed(observed.entities[p[1]], p[2])
                    /\ observed.entities[p[1]].keyspaces[p[2]].keyspace_type = "ysql"}
    IN {p \in live : \A q \in live : p[1] < q[1] \/ (p[1] = q[1] /\ p[2] <= q[2])}

ColocRoots(p) ==
    LET e == observed.entities[p[1]] IN
    {b \in DOMAIN e.tablets :
        e.tablets[b].table_id = e.keyspaces[p[2]].keyspace_id \o ".colocated.parent.uuid"}

ColocLeaderReplica(tablet) ==
    /\ tablet.leader # None
    /\ tablet.replicas # None
    /\ \E r \in DOMAIN tablet.replicas[1] :
          tablet.replicas[1][r].server_uuid = tablet.leader[1]

C24_ColocLeaderHostOutcomes ==
    (pc = "returned") =>
       LET result == output[1] IN
       /\ result.ok =>
             \E p \in ColocDatabases :
                \E b \in ColocRoots(p) :
                   ColocLeaderReplica(observed.entities[p[1]].tablets[b])
       /\ \A p \in ColocDatabases :
             /\ ColocRoots(p) = {}
                => result = ColocErr("Database " \o observed.database \o " is not colocated!")
             /\ (/\ ColocRoots(p) # {}
                 /\ \A b \in ColocRoots(p) :
                       ~ColocLeaderReplica(observed.entities[p[1]].tablets[b]))
                => result = ColocErr("No tablet leader host found.")
       /\ (\A n \in ColocLeaderEntities :
              \A j \in DOMAIN observed.entities[n].keyspaces :
                 ~ColocNamed(observed.entities[n], j))
          => result = ColocErr("Database name not found.")

(***************************************************************************)
(* C25.  Table colocation marker.  In the live view, and in the diff view  *)
(* on the second side of an Added table and the first side of a Removed    *)
(* table: a table whose object number is 16384 or more, whose keyspace is  *)
(* ysql and which no tablet names as its table carries [colocated] if a    *)
(* tablet names the colocation root of its keyspace; a table that a tablet *)
(* names, or whose object number is below 16384, or whose keyspace is not  *)
(* ysql or cannot be resolved, carries no marker.                          *)
(***************************************************************************)
MarkerRule(marker, type, number, linked, root) ==
    /\ (type = "ysql" /\ number >= 16384 /\ ~linked /\ root) => marker = "[colocated]"
    /\ (linked \/ number < 16384 \/ type # "ysql") => marker = ""

DiffMarkers ==
    (pc = "done" /\ entitiesdiff.master_found) =>
       \A t \in DOMAIN entitiesdiff.btreetablesdiff :
          \A i \in LinesFor("Object", <<t>>) :
             output[i].sym \in {"+", "-"} =>
                LET r == entitiesdiff.btreetablesdiff[t]
                    keyspaces == entitiesdiff.btreekeyspacediff
                    tablets == entitiesdiff.btreetabletsdiff
                    added == output[i].sym = "+"
                    keyspace_id == IF added THEN r.second_keyspace_id ELSE r.first_keyspace_id
                    type == IF keyspace_id \notin DOMAIN keyspaces THEN ""
                            ELSE IF added THEN keyspaces[keyspace_id].second_keyspace_type
                            ELSE keyspaces[keyspace_id].first_keyspace_type
                    tfield == IF added THEN "second_table_id" ELSE "first_table_id"
                IN MarkerRule(Marker(output[i]), type, ObjectNumber(t),
                              \E b \in DOMAIN tablets : tablets[b][tfield] = t,
                              RootTabletOn(keyspace_id, tfield))

\* the Object lines printed for table row j of per-node snapshot e
LiveObjectLines(e, j) ==
    {i \in DOMAIN output :
        /\ output[i].kind = "Object"
        /\ output[i].key = <<e.tables[j].table_id>>
        /\ output[i].prefix = (IF observed.args.details_enable
                               THEN e.hostname_port[1] ELSE "")}

LiveMarkers ==
    (pc = "ok") =>
       \A n \in DOMAIN observed.entities :
          LET e == observed.entities[n] IN
          LiveSelected(e) =>
             \A j \in DOMAIN e.tables :
                \A i \in LiveObjectLines(e, j) :
                   LET row == e.tables[j]
                       ks == {k \in DOMAIN e.keyspaces :
                                 e.keyspaces[k].keyspace_id = row.keyspace_id}
                       type == IF ks = {} THEN ""
                               ELSE e.keyspaces[CHOOSE k \in ks : \A l \in ks : k <= l].keyspace_type
                   IN MarkerRule(Marker(output[i]), type, ObjectNumber(row.table_id),
                                 \E b \in DOMAIN e.tablets : e.tablets[b].table_id = row.table_id,
                                 \E b \in DOMAIN e.tablets :
                                    e.tablets[b].table_id
                                       = row.keyspace_id \o ".colocated.parent.uuid")

C25_TableColocationMarker == DiffMarkers /\ LiveMarkers

\* the diff view has printed an Added table of a ysql keyspace with the
\* marker: no tablet names the table and one names the keyspace's root
C25_Witness ==
    /\ pc = "done"
    /\ \E t \in DOMAIN entitiesdiff.btreetablesdiff :
          \E i \in LinesFor("Object", <<t>>) :
             /\ output[i].sym = "+"
             /\ Marker(output[i]) = "[colocated]"
             /\ ObjectNumber(t) >= 16384
             /\ RootTabletOn(entitiesdiff.btreetablesdiff[t].second_keyspace_id,
                             "second_table_id")
             /\ \A b \in DOMAIN entitiesdiff.btreetabletsdiff :
                   entitiesdiff.btreetabletsdiff[b].second_table_id # t

(***************************************************************************)
(* C26.  The two passes commute: the four maps after second_snapshot(B)    *)
(* followed by first_snapshot(A) are the maps after first_snapshot(A)      *)
(* followed by second_snapshot(B); in particular first_snapshot fills in   *)
(* the first side of a record that second_snapshot created.                *)
(***************************************************************************)
MapsOf(self) ==
    <<self.btreekeyspacediff, self.btreetablesdiff,
      self.btreetabletsdiff, self.btreereplicasdiff>>

FirstThenSecond ==
    second_snapshot(
        first_snapshot(EntitiesDiffNew,
                       observed["begin"].entities, observed["begin"].leader),
        observed["end"].entities, observed["end"].leader)

C26_PassesCommute ==
    (pc = "passes" /\ via = <<"second", "first">>)
    => /\ MapsOf(entitiesdiff) = MapsOf(FirstThenSecond)
       /\ \A kind \in Kinds :
             LET occs == Occs(kind, observed["begin"]) IN
             \A i \in DOMAIN occs :
                /\ HasRecord(kind, occs[i].key)
                /\ Side(kind, occs[i].key, 1) = occs[i].val

(***************************************************************************)
(* C27.  Frame of the merge passes: a call of second_snapshot leaves every *)
(* first_* field of every record as it was and creates records with empty *)
(* first_* fields; a call of first_snapshot leaves every record that       *)
(* exists as it was and creates records with empty second_* fields; a call *)
(* with the empty leader leaves the four maps as they were and sets        *)
(* master_found to false.                                                  *)
(***************************************************************************)
\* the fields of a change record whose names begin with first_ or second_
SideFields(rec, side) ==
    [f \in {g \in DOMAIN rec : SubSeq(g, 1, Len(side)) = side} |-> rec[f]]

Blank(fields) == \A f \in DOMAIN fields : fields[f] = ""

\* the step from maps old to maps new is one a pass of that name may take
FrameOf(pass, old, new) ==
    \A m \in 1..4 :
       /\ \A k \in DOMAIN old[m] :
             /\ k \in DOMAIN new[m]
             /\ IF pass = "first" THEN new[m][k] = old[m][k]
                ELSE SideFields(new[m][k], "first_") = SideFields(old[m][k], "first_")
       /\ \A k \in DOMAIN new[m] \ DOMAIN old[m] :
             Blank(SideFields(new[m][k], IF pass = "first" THEN "second_" ELSE "first_"))

PassFrame ==
    (via' # via) =>
       LET pass == via'[Len(via')]
           leader == IF pass = "first" THEN observed["begin"].leader
                     ELSE observed["end"].leader
       IN /\ FrameOf(pass, MapsOf(entitiesdiff), MapsOf(entitiesdiff'))
          /\ leader = ""
             => /\ MapsOf(entitiesdiff') = MapsOf(entitiesdiff)
                /\ entitiesdiff'.master_found = FALSE

C27_MergeFrame == [][PassFrame]_vars

\* both passes have been called, each with a leader, and the later one met
\* a keyspace whose record the earlier one had created
C27_Witness ==
    /\ pc = "passes"
    /\ Len(via) = 2 /\ via[1] # via[2]
    /\ observed["begin"].leader # "" /\ observed["end"].leader # ""
    /\ \E k \in DOMAIN entitiesdiff.btreekeyspacediff :
          /\ <<k>> \in {Occs("Database", observed["begin"])[i].key :
                          i \in DOMAIN Occs("Database", observed["begin"])}
          /\ <<k>> \in {Occs("Database", observed["end"])[i].key :
                          i \in DOMAIN Occs("Database", observed["end"])}
          /\ entitiesdiff.btreekeyspacediff[k].second_keyspace_name # ""

(***************************************************************************)
(* C28.  Presence determines Added and Removed.  When print completes      *)
(* after both reads found a leader: an identifier that only the end        *)
(* observation's leader snapshot holds, with some tracked attribute not    *)
(* empty, has Added lines only, and one that only the begin observation's  *)
(* leader snapshot holds has Removed lines only, a catalog table of a ysql *)
(* database having no line at all; an identifier both leader snapshots     *)
(* hold has neither an Added nor a Removed line, except the Removed line   *)
(* of a ysql database whose tables went from some to none.                 *)
(***************************************************************************)
HeldBy(kind, key, n) ==
    \E i \in DOMAIN Occs(kind, observed[n]) : Occs(kind, observed[n])[i].key = key

HeldNonEmpty(kind, key, n) ==
    \E i \in DOMAIN Occs(kind, observed[n]) :
       /\ Occs(kind, observed[n])[i].key = key
       /\ Occs(kind, observed[n])[i].val # ZeroSide(kind)

SymsOf(kind, key) == {output[i].sym : i \in LinesFor(kind, key)}

\* the record is a table the print leaves out as a catalog table on that side
SuppressedOn(kind, key, side) ==
    /\ kind = "Object"
    /\ HasRecord(kind, key)
    /\ IF side = 1
       THEN CatalogOf(key[1], entitiesdiff.btreetablesdiff[key[1]].first_keyspace_id,
                      "first_keyspace_type")
       ELSE CatalogOf(key[1], entitiesdiff.btreetablesdiff[key[1]].second_keyspace_id,
                      "second_keyspace_type")

\* the record is a ysql database with tables on the first side and none on
\* the second
DroppedDatabase(kind, key) ==
    /\ kind = "Database"
    /\ HasRecord(kind, key)
    /\ entitiesdiff.btreekeyspacediff[key[1]].second_keyspace_type = "ysql"
    /\ \E t \in DOMAIN entitiesdiff.btreetablesdiff :
          entitiesdiff.btreetablesdiff[t].first_keyspace_id = key[1]
    /\ \A t \in DOMAIN entitiesdiff.btreetablesdiff :
          entitiesdiff.btreetablesdiff[t].second_keyspace_id # key[1]

AllKeys(kind, n) ==
    {Occs(kind, observed[n])[i].key : i \in DOMAIN Occs(kind, observed[n])}

C28_PresenceClassifies ==
    (/\ pc \in {"done", "panicked"}
     /\ observed["begin"].leader # ""
     /\ observed["end"].leader # "")
    => \A kind \in Kinds :
          \A key \in AllKeys(kind, "begin") \cup AllKeys(kind, "end") :
             /\ (~HeldBy(kind, key, "begin") /\ HeldNonEmpty(kind, key, "end"))
                => SymsOf(kind, key) = (IF SuppressedOn(kind, key, 2) THEN {} ELSE {"+"})
             /\ (HeldNonEmpty(kind, key, "begin") /\ ~HeldBy(kind, key, "end"))
                => SymsOf(kind, key) = (IF SuppressedOn(kind, key, 1) THEN {} ELSE {"-"})
             /\ (HeldBy(kind, key, "begin") /\ HeldBy(kind, key, "end"))
                => SymsOf(kind, key) \cap {"+", "-"}
                      \subseteq (IF DroppedDatabase(kind, key) THEN {"-"} ELSE {})

(***************************************************************************)
(* C29.  When print runs with master_found true, each side was populated   *)
(* from a per-node snapshot tagged with the leader its pass was given: if  *)
(* a pass was given a leader that is not empty and that no per-node        *)
(* snapshot of its aggregate is tagged with, print reports nothing as      *)
(* Added or Removed.                                                       *)
(***************************************************************************)
LeaderSnapshotMissing(n) ==
    /\ LeaderPassed(n) # ""
    /\ \A i \in DOMAIN observed[n].entities :
          observed[n].entities[i].hostname_port # Some(LeaderPassed(n))

C29_LeaderSnapshotPresent ==
    (/\ pc = "done"
     /\ entitiesdiff.master_found
     /\ \E n \in {"begin", "end"} : LeaderSnapshotMissing(n))
    => \A i \in DOMAIN output : output[i].sym \notin {"+", "-"}

(***************************************************************************)
(* C30.  Collector termination: when every request returns, read_entities  *)
(* eventually returns, whatever the number of pairs and the pool size; and *)
(* when some request never returns, read_entities never returns.           *)
(***************************************************************************)
EveryRequestReturns == \A i \in PairIds : Answers(i)

C30_CollectorTermination ==
    /\ [](EveryRequestReturns => <>(cpc = "done"))
    /\ [](~EveryRequestReturns => cpc # "done")

\* read_entities has returned from a pool with fewer threads than pairs
C30_Witness ==
    /\ cpc = "done"
    /\ EveryRequestReturns
    /\ parallel < Cardinality(PairIds)
    /\ Len(allentities) = Cardinality(PairIds)

====
